---- MODULE Spec2Model ----
(***************************************************************************)
(* A model of the TinyC compiler (ryan-tobin/tiny-c-compiler): the lexer   *)
(* (src/lexer.c), the recursive-descent parser (src/parser.c) and the      *)
(* semantic analyzer (src/semantic.c).  Source text is a sequence of       *)
(* one-character strings; C structs are records that keep the field names  *)
(* of the source; NULL pointers are the distinguished values below.        *)
(***************************************************************************)
EXTENDS Integers, Sequences, FiniteSets, TLC

VARIABLES
    source,      \* lexer->source of the stand-alone lexer (a sequence of characters)
    lexer,       \* the stand-alone lexer_t: position, line, column, current_token
    returned,    \* the token the most recent lexer call returned to its caller
    last_call,   \* which lexer entry point ran last: "create", "peek", "next",
                 \* or "next_after_peek" for a lexer_next_token that followed a peek
    calls,       \* how many times lexer_next_token was called on the stand-alone lexer
    parser,      \* parser_t, with the lexer_t it points to in the field lexer
    stack,       \* the parser's call stack of statement-level parse functions
    control,     \* where the parser is: which function runs next, or the node just returned
    ast,         \* the program handed to semantic_analyze
    analyzer,    \* semantic_analyzer_t: scope chain, scope_level, errors, function context,
                 \* and the history of the declarations, lookups and checks it made
    sem_stack,   \* the analyzer's call stack of semantic_analyze_* frames
    sem_control, \* where the analyzer is: the node analysed next, or the value just returned
    codegen,     \* codegen_t: the output written so far, the function context, the
                 \* label and string counters, the registers in use, the string table
    cpu,         \* the machine that runs the emitted code: registers, flags, stack memory
    driver       \* what drives the code generator: a test, or main with its exit code

lexVars == <<source, lexer, returned, last_call, calls>>
parVars == <<parser, stack, control>>
semVars == <<ast, analyzer, sem_stack, sem_control>>
genVars == <<codegen, cpu, driver>>
vars == <<source, lexer, returned, last_call, calls, parser, stack, control,
          ast, analyzer, sem_stack, sem_control, codegen, cpu, driver>>

-----------------------------------------------------------------------------
(* Bounds of the model                                                     *)

\* longest source text, in characters, handed to the stand-alone lexer
MaxLen == 4

\* how many calls of lexer_next_token a test driver makes on one lexer
MaxCalls == 6

-----------------------------------------------------------------------------
(* Characters and strings                                                  *)

\* the terminating '\0' of the C string, returned by lexer_peek at the end
NUL == "NUL"

\* a NULL char*: token values and names are sequences of characters otherwise
NULL == <<"NULL">>

\* a C string literal used as a message: kept whole as a one-element sequence
Msg(s) == <<s>>

LowerCase == {"a","b","c","d","e","f","g","h","i","j","k","l","m",
              "n","o","p","q","r","s","t","u","v","w","x","y","z"}
UpperCase == {"A","B","C","D","E","F","G","H","I","J","K","L","M",
              "N","O","P","Q","R","S","T","U","V","W","X","Y","Z"}

isalpha(c) == c \in LowerCase \cup UpperCase
isdigit(c) == c \in {"0","1","2","3","4","5","6","7","8","9"}
isalnum(c) == isalpha(c) \/ isdigit(c)
isspace(c) == c \in {" ", "\t", "\n", "\r", "\f"}

\* text[from+1 .. to] of a 0-based half-open range, as strncpy copies it
Slice(src, from, to) == SubSeq(src, from + 1, to)

-----------------------------------------------------------------------------
(* Lexer: src/lexer.c                                                      *)

keywords ==
    << [word |-> <<"i","n","t">>,             token |-> "TOKEN_INT"],
       [word |-> <<"c","h","a","r">>,         token |-> "TOKEN_CHAR"],
       [word |-> <<"v","o","i","d">>,         token |-> "TOKEN_VOID"],
       [word |-> <<"i","f">>,                 token |-> "TOKEN_IF"],
       [word |-> <<"e","l","s","e">>,         token |-> "TOKEN_ELSE"],
       [word |-> <<"w","h","i","l","e">>,     token |-> "TOKEN_WHILE"],
       [word |-> <<"f","o","r">>,             token |-> "TOKEN_FOR"],
       [word |-> <<"r","e","t","u","r","n">>, token |-> "TOKEN_RETURN"] >>

Token(type, value, line, column) ==
    [type |-> type, value |-> value, line |-> line, column |-> column]

lexer_create(src) ==
    [position |-> 0, line |-> 1, column |-> 1,
     current_token |-> Token("TOKEN_EOF", NULL, 0, 0)]

lexer_at_end(src, L) == L.position >= Len(src)

lexer_peek(src, L) ==
    IF lexer_at_end(src, L) THEN NUL ELSE src[L.position + 1]

lexer_peek_next(src, L) ==
    IF L.position + 1 >= Len(src) THEN NUL ELSE src[L.position + 2]

lexer_advance(src, L) ==
    IF lexer_at_end(src, L) THEN L
    ELSE IF src[L.position + 1] = "\n"
         THEN [L EXCEPT !.position = @ + 1, !.line = @ + 1, !.column = 1]
         ELSE [L EXCEPT !.position = @ + 1, !.column = @ + 1]

\* the inner loop that skips a line comment up to, not including, the newline
RECURSIVE skip_line_comment(_, _)
skip_line_comment(src, L) ==
    IF ~lexer_at_end(src, L) /\ lexer_peek(src, L) # "\n"
    THEN skip_line_comment(src, lexer_advance(src, L))
    ELSE L

\* the inner loop that skips the rest of a block comment after its opening
RECURSIVE skip_block_comment(_, _)
skip_block_comment(src, L) ==
    IF lexer_at_end(src, L) THEN L
    ELSE IF lexer_peek(src, L) = "*" /\ lexer_peek_next(src, L) = "/"
         THEN lexer_advance(src, lexer_advance(src, L))
         ELSE skip_block_comment(src, lexer_advance(src, L))

RECURSIVE lexer_skip_whitespace(_, _)
lexer_skip_whitespace(src, L) ==
    IF lexer_at_end(src, L) THEN L
    ELSE LET c == lexer_peek(src, L) IN
         IF isspace(c)
         THEN lexer_skip_whitespace(src, lexer_advance(src, L))
         ELSE IF c = "/" /\ lexer_peek_next(src, L) = "/"
         THEN lexer_skip_whitespace(src, skip_line_comment(src, L))
         ELSE IF c = "/" /\ lexer_peek_next(src, L) = "*"
         THEN lexer_skip_whitespace(src,
                  skip_block_comment(src, lexer_advance(src, lexer_advance(src, L))))
         ELSE L

lexer_make_token(L, type, value) == Token(type, value, L.line, L.column)

RECURSIVE lexer_check_keyword_from(_, _)
lexer_check_keyword_from(text, i) ==
    IF i > Len(keywords) THEN "TOKEN_IDENTIFIER"
    ELSE IF text = keywords[i].word THEN keywords[i].token
    ELSE lexer_check_keyword_from(text, i + 1)

lexer_check_keyword(text) == lexer_check_keyword_from(text, 1)

\* the loop over the characters after the first one of an identifier
RECURSIVE scan_identifier_rest(_, _)
scan_identifier_rest(src, L) ==
    IF ~lexer_at_end(src, L) /\ (isalnum(lexer_peek(src, L)) \/ lexer_peek(src, L) = "_")
    THEN scan_identifier_rest(src, lexer_advance(src, L))
    ELSE L

\* the identifier is recognised but its characters are not consumed
lexer_scan_identifier_stuck(src, L) ==
    LET L1 == IF isalpha(lexer_peek(src, L)) \/ lexer_peek(src, L) = "_"
              THEN scan_identifier_rest(src, lexer_advance(src, L))
              ELSE L
        text == Slice(src, L.position, L1.position)
    IN  [L EXCEPT !.current_token =
            Token(lexer_check_keyword(text), text, L.line, L.column)]

lexer_scan_identifier(src, L) ==
    LET L1 == IF isalpha(lexer_peek(src, L)) \/ lexer_peek(src, L) = "_"
              THEN scan_identifier_rest(src, lexer_advance(src, L))
              ELSE L
        text == Slice(src, L.position, L1.position)
    IN  [L1 EXCEPT !.current_token =
            Token(lexer_check_keyword(text), text, L.line, L.column)]

RECURSIVE scan_number_digits(_, _)
scan_number_digits(src, L) ==
    IF ~lexer_at_end(src, L) /\ isdigit(lexer_peek(src, L))
    THEN scan_number_digits(src, lexer_advance(src, L))
    ELSE L

lexer_scan_number(src, L) ==
    LET L1 == scan_number_digits(src, L)
        text == Slice(src, L.position, L1.position)
    IN  [L1 EXCEPT !.current_token = Token("TOKEN_NUMBER", text, L.line, L.column)]

\* the loop over the body of a string literal, after the opening quote
RECURSIVE scan_string_body(_, _)
scan_string_body(src, L) ==
    IF ~lexer_at_end(src, L) /\ lexer_peek(src, L) # "\""
    THEN IF lexer_peek(src, L) = "\\"
         THEN LET L1 == lexer_advance(src, L) IN
              scan_string_body(src,
                  IF ~lexer_at_end(src, L1) THEN lexer_advance(src, L1) ELSE L1)
         ELSE scan_string_body(src, lexer_advance(src, L))
    ELSE L

lexer_scan_string(src, L) ==
    LET L0 == lexer_advance(src, L)
        L1 == scan_string_body(src, L0)
    IN  IF lexer_at_end(src, L1)
        THEN [L1 EXCEPT !.current_token =
                 Token("TOKEN_ERROR", Msg("Unterminated string"), L.line, L.column)]
        ELSE [lexer_advance(src, L1) EXCEPT !.current_token =
                 Token("TOKEN_STRING", Slice(src, L0.position, L1.position),
                       L.line, L.column)]

\* a one-character token: the token is made after the character was consumed
single_char_token(L, type) ==
    [L EXCEPT !.current_token = lexer_make_token(L, type, NULL)]

\* '=', '!', '<', '>': a two-character token when followed by '=', else one
two_char_token(src, L, second, both, alone) ==
    IF lexer_peek(src, L) = second
    THEN LET L1 == lexer_advance(src, L) IN
         [L1 EXCEPT !.current_token = lexer_make_token(L1, both, NULL)]
    ELSE [L EXCEPT !.current_token = lexer_make_token(L, alone, NULL)]

\* '&' and '|': a token only when doubled, else an ERROR token
doubled_char_token(src, L, second, both) ==
    IF lexer_peek(src, L) = second
    THEN LET L1 == lexer_advance(src, L) IN
         [L1 EXCEPT !.current_token = lexer_make_token(L1, both, NULL)]
    ELSE [L EXCEPT !.current_token =
             lexer_make_token(L, "TOKEN_ERROR", Msg("Unexpected character"))]

\* position-- ; column-- : put the character back before scanning
put_back(L) == [L EXCEPT !.position = @ - 1, !.column = @ - 1]

SingleCharTokens ==
    [c \in {"+", "-", "*", "/", "%", ";", ",", "(", ")", "{", "}"} |->
        CASE c = "+" -> "TOKEN_PLUS"
          [] c = "-" -> "TOKEN_MINUS"
          [] c = "*" -> "TOKEN_MULTIPLY"
          [] c = "/" -> "TOKEN_DIVIDE"
          [] c = "%" -> "TOKEN_MODULO"
          [] c = ";" -> "TOKEN_SEMICOLON"
          [] c = "," -> "TOKEN_COMMA"
          [] c = "(" -> "TOKEN_LEFT_PAREN"
          [] c = ")" -> "TOKEN_RIGHT_PAREN"
          [] c = "{" -> "TOKEN_LEFT_BRACE"
          [] c = "}" -> "TOKEN_RIGHT_BRACE"]

\* returns the lexer after the call; the token returned is its current_token
lexer_next_token(src, L) ==
    LET L0 == lexer_skip_whitespace(src, L) IN
    IF lexer_at_end(src, L0)
    THEN [L0 EXCEPT !.current_token = lexer_make_token(L0, "TOKEN_EOF", NULL)]
    ELSE LET c  == src[L0.position + 1]
             L1 == lexer_advance(src, L0)
         IN  CASE c \in DOMAIN SingleCharTokens -> single_char_token(L1, SingleCharTokens[c])
               [] c = "=" -> two_char_token(src, L1, "=", "TOKEN_EQUAL", "TOKEN_ASSIGN")
               [] c = "!" -> two_char_token(src, L1, "=", "TOKEN_NOT_EQUAL", "TOKEN_LOGICAL_NOT")
               [] c = "<" -> two_char_token(src, L1, "=", "TOKEN_LESS_EQUAL", "TOKEN_LESS")
               [] c = ">" -> two_char_token(src, L1, "=", "TOKEN_GREATER_EQUAL", "TOKEN_GREATER")
               [] c = "&" -> doubled_char_token(src, L1, "&", "TOKEN_LOGICAL_AND")
               [] c = "|" -> doubled_char_token(src, L1, "|", "TOKEN_LOGICAL_OR")
               [] c = "\"" -> lexer_scan_string(src, put_back(L1))
               [] OTHER ->
                    IF isalpha(c) \/ c = "_" THEN lexer_scan_identifier(src, put_back(L1))
                    ELSE IF isdigit(c) THEN lexer_scan_number(src, put_back(L1))
                    ELSE [L1 EXCEPT !.current_token =
                             lexer_make_token(L1, "TOKEN_ERROR",
                                              <<"Unexpected character: '", c, "'">>)]

\* the peek restores the position and the line but not the column
lexer_peek_token_column_lost(src, L) ==
    LET L1 == lexer_next_token(src, L)
    IN  [next_token |-> L1.current_token,
         lexer |-> [L1 EXCEPT !.position = L.position,
                              !.line = L.line,
                              !.current_token = L.current_token]]

\* returns the token peeked and the lexer as lexer_peek_token leaves it
lexer_peek_token(src, L) ==
    LET saved_position == L.position
        saved_line     == L.line
        saved_column   == L.column
        saved_token    == L.current_token
        L1             == lexer_next_token(src, L)
    IN  [next_token |-> L1.current_token,
         lexer |-> [L1 EXCEPT !.position = saved_position,
                              !.line = saved_line,
                              !.column = saved_column,
                              !.current_token = saved_token]]

-----------------------------------------------------------------------------
(* AST: src/ast.h, src/ast.c                                               *)

\* a NULL ast_node_t*
NULLNODE == [type |-> "NULL"]

ast_create_program ==
    [type |-> "AST_PROGRAM", data_type |-> "TYPE_VOID", declarations |-> <<>>]

ast_create_function_decl(return_type, name) ==
    [type |-> "AST_FUNCTION_DECL", data_type |-> "TYPE_VOID",
     return_type |-> return_type, name |-> name, parameters |-> <<>>, body |-> NULLNODE]

ast_create_variable_decl(var_type, name, initializer) ==
    [type |-> "AST_VARIABLE_DECL", data_type |-> "TYPE_VOID",
     var_type |-> var_type, name |-> name, initializer |-> initializer]

ast_create_parameter(param_type, name) ==
    [type |-> "AST_PARAMETER", data_type |-> "TYPE_VOID",
     param_type |-> param_type, name |-> name]

ast_create_compound_stmt ==
    [type |-> "AST_COMPOUND_STMT", data_type |-> "TYPE_VOID", statements |-> <<>>]

ast_create_if_stmt(condition, then_stmt, else_stmt) ==
    [type |-> "AST_IF_STMT", data_type |-> "TYPE_VOID",
     condition |-> condition, then_stmt |-> then_stmt, else_stmt |-> else_stmt]

ast_create_while_stmt(condition, body) ==
    [type |-> "AST_WHILE_STMT", data_type |-> "TYPE_VOID",
     condition |-> condition, body |-> body]

ast_create_for_stmt(init, condition, update, body) ==
    [type |-> "AST_FOR_STMT", data_type |-> "TYPE_VOID",
     init |-> init, condition |-> condition, update |-> update, body |-> body]

ast_create_return_stmt(value) ==
    [type |-> "AST_RETURN_STMT", data_type |-> "TYPE_VOID", value |-> value]

ast_create_expression_stmt(expression) ==
    [type |-> "AST_EXPRESSION_STMT", data_type |-> "TYPE_VOID", expression |-> expression]

ast_create_binary_op(oper, left, right) ==
    [type |-> "AST_BINARY_OP", data_type |-> "TYPE_VOID",
     oper |-> oper, left |-> left, right |-> right]

ast_create_unary_op(oper, operand) ==
    [type |-> "AST_UNARY_OP", data_type |-> "TYPE_VOID", oper |-> oper, operand |-> operand]

ast_create_function_call(name) ==
    [type |-> "AST_FUNCTION_CALL", data_type |-> "TYPE_VOID",
     name |-> name, arguments |-> <<>>]

ast_create_identifier(name) ==
    [type |-> "AST_IDENTIFIER", data_type |-> "TYPE_VOID", name |-> name]

ast_create_number(value) ==
    [type |-> "AST_NUMBER", data_type |-> "TYPE_INT", value |-> value]

ast_create_string(value) ==
    [type |-> "AST_STRING", data_type |-> "TYPE_CHAR_PTR", value |-> value]

ast_add_declaration(program, declaration) ==
    IF program = NULLNODE \/ program.type # "AST_PROGRAM" \/ declaration = NULLNODE
    THEN program
    ELSE [program EXCEPT !.declarations = Append(@, declaration)]

ast_add_parameter(function, parameter) ==
    IF function = NULLNODE \/ function.type # "AST_FUNCTION_DECL" \/ parameter = NULLNODE
    THEN function
    ELSE [function EXCEPT !.parameters = Append(@, parameter)]

ast_add_statement(compound, statement) ==
    IF compound = NULLNODE \/ compound.type # "AST_COMPOUND_STMT" \/ statement = NULLNODE
    THEN compound
    ELSE [compound EXCEPT !.statements = Append(@, statement)]

ast_add_argument(function_call, argument) ==
    IF function_call = NULLNODE \/ function_call.type # "AST_FUNCTION_CALL"
       \/ argument = NULLNODE
    THEN function_call
    ELSE [function_call EXCEPT !.arguments = Append(@, argument)]

-----------------------------------------------------------------------------
(* Parser: src/parser.h, src/parser.c                                      *)

MAX_PARSE_ERRORS == 50

\* what dereferencing a NULL ast_node_t* can do: the process is killed, or
\* the read yields a value that is not AST_IDENTIFIER and parsing goes on
UBOutcomes == {"segv", "garbage"}

DigitValue(c) ==
    CASE c = "0" -> 0 [] c = "1" -> 1 [] c = "2" -> 2 [] c = "3" -> 3 [] c = "4" -> 4
      [] c = "5" -> 5 [] c = "6" -> 6 [] c = "7" -> 7 [] c = "8" -> 8 [] c = "9" -> 9

\* atoi of a NUMBER lexeme (decimal digits only)
RECURSIVE atoi(_)
atoi(text) ==
    IF text = <<>> THEN 0
    ELSE 10 * atoi(SubSeq(text, 1, Len(text) - 1)) + DigitValue(text[Len(text)])

\* the tokens that the calls of lexer_next_token return one after the other,
\* from lexer state L up to and including the first TOKEN_EOF
RECURSIVE lexer_tokens(_, _)
lexer_tokens(src, L) ==
    LET L1 == lexer_next_token(src, L) IN
    IF L1.current_token.type = "TOKEN_EOF" THEN <<L1.current_token>>
    ELSE <<L1.current_token>> \o lexer_tokens(src, L1)

\* parser_t after parser_create.  The lexer it points to is held as the
\* tokens it has yet to return.  consumed counts the tokens taken by
\* parser_advance; null_deref and crashed record a NULL dereference and the
\* death of the process.
parser_create(src) ==
    LET tokens == lexer_tokens(src, lexer_create(src)) IN
    [lexer |-> Tail(tokens),
     current_token |-> Head(tokens),
     previous_token |-> Token("TOKEN_EOF", NULL, 0, 0),
     errors |-> <<>>,
     panic_mode |-> 0,
     consumed |-> 0,
     null_deref |-> FALSE,
     crashed |-> FALSE]

parser_check(p, type) == p.current_token.type = type

parser_advance(p) ==
    IF p.current_token.type # "TOKEN_EOF"
    THEN [p EXCEPT !.previous_token = p.current_token,
                   !.current_token = Head(p.lexer),
                   !.lexer = Tail(p.lexer),
                   !.consumed = @ + 1]
    ELSE [p EXCEPT !.previous_token = p.current_token]

\* the parser after parser_match; the call returned 1 iff parser_check held
parser_match(p, type) ==
    IF parser_check(p, type) THEN parser_advance(p) ELSE p

\* a variant that reports the error also in panic mode
parser_error_at_current_always(p, message) ==
    [p EXCEPT !.panic_mode = 1,
              !.errors = Append(@, [message |-> message,
                                    line |-> p.current_token.line,
                                    column |-> p.current_token.column])]

parser_error_at_current(p, message) ==
    IF p.panic_mode = 1 THEN p
    ELSE [p EXCEPT !.panic_mode = 1,
                   !.errors = Append(@, [message |-> message,
                                         line |-> p.current_token.line,
                                         column |-> p.current_token.column])]

parser_error_at_previous(p, message) ==
    IF p.panic_mode = 1 THEN p
    ELSE [p EXCEPT !.panic_mode = 1,
                   !.errors = Append(@, [message |-> message,
                                         line |-> p.previous_token.line,
                                         column |-> p.previous_token.column])]

parser_consume(p, type, error_message) ==
    IF p.current_token.type = type THEN parser_advance(p)
    ELSE parser_error_at_current(p, error_message)

\* the loop of parser_synchronize
RECURSIVE synchronize_loop(_)
synchronize_loop(p) ==
    IF p.current_token.type = "TOKEN_EOF" THEN p
    ELSE IF p.previous_token.type = "TOKEN_SEMICOLON" THEN p
    ELSE IF p.current_token.type \in {"TOKEN_IF", "TOKEN_FOR", "TOKEN_WHILE", "TOKEN_RETURN",
                                      "TOKEN_INT", "TOKEN_CHAR", "TOKEN_VOID"} THEN p
    ELSE synchronize_loop(parser_advance(p))

parser_synchronize(p) ==
    synchronize_loop([p EXCEPT !.panic_mode = 0])

parser_has_errors(p) == Len(p.errors) > 0

\* the result of a parse function: the parser after it and the node returned
R(p, node) == [p |-> p, node |-> node]

\* the parser after parser_parse_type and, in the field type, the type returned
parser_parse_type(p) ==
    IF parser_check(p, "TOKEN_INT") THEN [p |-> parser_advance(p), type |-> "TYPE_INT"]
    ELSE IF parser_check(p, "TOKEN_CHAR")
    THEN LET p1 == parser_advance(p) IN
         IF parser_check(p1, "TOKEN_MULTIPLY")
         THEN [p |-> parser_advance(p1), type |-> "TYPE_CHAR_PTR"]
         ELSE [p |-> p1, type |-> "TYPE_CHAR"]
    ELSE IF parser_check(p, "TOKEN_VOID") THEN [p |-> parser_advance(p), type |-> "TYPE_VOID"]
    ELSE [p |-> parser_error_at_current(p, "Expected type name"), type |-> "TYPE_VOID"]

\* the levels with parser_parse_additive called by parser_parse_multiplicative
BinaryLevels_swapped ==
    << [fn |-> "parser_parse_logical_or", ops |-> ("TOKEN_LOGICAL_OR" :> "||")],
       [fn |-> "parser_parse_logical_and", ops |-> ("TOKEN_LOGICAL_AND" :> "&&")],
       [fn |-> "parser_parse_equality",
        ops |-> ("TOKEN_EQUAL" :> "==" @@ "TOKEN_NOT_EQUAL" :> "!=")],
       [fn |-> "parser_parse_relational",
        ops |-> ("TOKEN_LESS" :> "<" @@ "TOKEN_LESS_EQUAL" :> "<=" @@
                 "TOKEN_GREATER" :> ">" @@ "TOKEN_GREATER_EQUAL" :> ">=")],
       [fn |-> "parser_parse_multiplicative",
        ops |-> ("TOKEN_MULTIPLY" :> "*" @@ "TOKEN_DIVIDE" :> "/" @@ "TOKEN_MODULO" :> "%")],
       [fn |-> "parser_parse_additive", ops |-> ("TOKEN_PLUS" :> "+" @@ "TOKEN_MINUS" :> "-")] >>

\* the six left-associative levels between assignment and unary, lowest
\* precedence first: the function of parser.c that parses the level, and the
\* tokens it accepts with the operator text it stores in the node
BinaryLevels ==
    << [fn |-> "parser_parse_logical_or", ops |-> ("TOKEN_LOGICAL_OR" :> "||")],
       [fn |-> "parser_parse_logical_and", ops |-> ("TOKEN_LOGICAL_AND" :> "&&")],
       [fn |-> "parser_parse_equality",
        ops |-> ("TOKEN_EQUAL" :> "==" @@ "TOKEN_NOT_EQUAL" :> "!=")],
       [fn |-> "parser_parse_relational",
        ops |-> ("TOKEN_LESS" :> "<" @@ "TOKEN_LESS_EQUAL" :> "<=" @@
                 "TOKEN_GREATER" :> ">" @@ "TOKEN_GREATER_EQUAL" :> ">=")],
       [fn |-> "parser_parse_additive", ops |-> ("TOKEN_PLUS" :> "+" @@ "TOKEN_MINUS" :> "-")],
       [fn |-> "parser_parse_multiplicative",
        ops |-> ("TOKEN_MULTIPLY" :> "*" @@ "TOKEN_DIVIDE" :> "/" @@ "TOKEN_MODULO" :> "%")] >>

parser_parse_parameter(p) ==
    LET t == parser_parse_type(p) IN
    IF ~parser_check(t.p, "TOKEN_IDENTIFIER")
    THEN R(parser_error_at_current(t.p, "Expected parameter name"), NULLNODE)
    ELSE R(parser_advance(t.p), ast_create_parameter(t.type, t.p.current_token.value))

\* the do-while loop over the parameters of a function declaration
RECURSIVE parameters_loop(_, _)
parameters_loop(p, function) ==
    LET param == parser_parse_parameter(p)
        function1 == ast_add_parameter(function, param.node)
    IN  IF parser_check(param.p, "TOKEN_COMMA")
        THEN parameters_loop(parser_advance(param.p), function1)
        ELSE R(param.p, function1)

\* parser_parse_function_declaration up to the body; body tells whether
\* parser_parse_compound_statement is called for it
function_declaration_header(p, return_type, name) ==
    LET function == ast_create_function_decl(return_type, name)
        p1 == parser_consume(p, "TOKEN_LEFT_PAREN", "Expected '(' after function name")
        ps == IF ~parser_check(p1, "TOKEN_RIGHT_PAREN")
              THEN parameters_loop(p1, function)
              ELSE R(p1, function)
        p2 == parser_consume(ps.p, "TOKEN_RIGHT_PAREN", "Expected ')' after parameters")
    IN  IF parser_check(p2, "TOKEN_SEMICOLON")
        THEN [p |-> parser_advance(p2), node |-> ps.node, body |-> FALSE]
        ELSE [p |-> p2, node |-> ps.node, body |-> TRUE]

-----------------------------------------------------------------------------
(* The recursive descent as a machine.  stack holds the activation records *)
(* of the parse functions that wait for a callee to return, innermost      *)
(* first: fn is the function, stage the call it waits for, the other       *)
(* fields its locals.  control is what happens next: the call of           *)
(* parser_parse_statement or parser_parse_expression, the return of a node *)
(* to the innermost record, or the head of one of the two statement loops. *)

\* a configuration of the machine; a killed process stops in "crashed"
Config(p, stk, ctl) ==
    [parser |-> p, stack |-> stk,
     control |-> IF p.crashed THEN [op |-> "crashed"] ELSE ctl]

\* a parse function returns node to its caller
Return(p, stk, node) == Config(p, stk, [op |-> "return", node |-> node])

\* function frame calls parser_parse_expression / parser_parse_statement
CallExpression(p, frame, stk) == Config(p, <<frame>> \o stk, [op |-> "expression"])
CallStatement(p, frame, stk) == Config(p, <<frame>> \o stk, [op |-> "statement"])

\* entry of parser_parse_compound_statement up to the head of its loop; mark
\* is the number of tokens consumed when the current iteration began
EnterCompound(p, stk) ==
    Config(parser_consume(p, "TOKEN_LEFT_BRACE", "Expected '{'"),
           <<[fn |-> "parser_parse_compound_statement", stage |-> "statement",
              compound |-> ast_create_compound_stmt, mark |-> -1]>> \o stk,
           [op |-> "compound_loop"])

\* parser_parse_declaration up to its return, to the initializer of a
\* variable or to the body of a function
EnterDeclaration(p, stk) ==
    LET t == parser_parse_type(p) IN
    IF ~parser_check(t.p, "TOKEN_IDENTIFIER")
    THEN Return(parser_error_at_current(t.p, "Expected identifier"), stk, NULLNODE)
    ELSE LET name == t.p.current_token.value
             p1 == parser_advance(t.p)
         IN  IF parser_check(p1, "TOKEN_LEFT_PAREN")
             THEN LET h == function_declaration_header(p1, t.type, name) IN
                  IF h.body
                  THEN EnterCompound(h.p, <<[fn |-> "parser_parse_function_declaration",
                                             stage |-> "body", function |-> h.node]>> \o stk)
                  ELSE Return(h.p, stk, h.node)
             ELSE \* parser_parse_variable_declaration
                  IF parser_check(p1, "TOKEN_ASSIGN")
                  THEN CallExpression(parser_advance(p1),
                                      [fn |-> "parser_parse_variable_declaration",
                                       stage |-> "initializer",
                                       var_type |-> t.type, name |-> name], stk)
                  ELSE Return(parser_consume(p1, "TOKEN_SEMICOLON",
                                             "Expected ';' after variable declaration"),
                              stk, ast_create_variable_decl(t.type, name, NULLNODE))

\* parser_parse_expression_statement up to its return or to its expression
EnterExpressionStatement(p, stk) ==
    IF ~parser_check(p, "TOKEN_SEMICOLON")
    THEN CallExpression(p, [fn |-> "parser_parse_expression_statement",
                           stage |-> "expression"], stk)
    ELSE Return(parser_consume(p, "TOKEN_SEMICOLON", "Expected ';' after expression"),
                stk, ast_create_expression_stmt(NULLNODE))

\* parser_parse_for_statement from the update clause to the call for the body
ForUpdate(p, init, condition, stk) ==
    LET p1 == parser_consume(p, "TOKEN_SEMICOLON", "Expected ';' after for condition")
        frame == [fn |-> "parser_parse_for_statement", stage |-> "update",
                  init |-> init, condition |-> condition, update |-> NULLNODE]
    IN  IF ~parser_check(p1, "TOKEN_RIGHT_PAREN")
        THEN CallExpression(p1, frame, stk)
        ELSE CallStatement(parser_consume(p1, "TOKEN_RIGHT_PAREN",
                                          "Expected ')' after for clauses"),
                           [frame EXCEPT !.stage = "body"], stk)

\* parser_parse_for_statement from the condition clause on
ForCondition(p, init, stk) ==
    IF ~parser_check(p, "TOKEN_SEMICOLON")
    THEN CallExpression(p, [fn |-> "parser_parse_for_statement", stage |-> "condition",
                            init |-> init, condition |-> NULLNODE, update |-> NULLNODE],
                        stk)
    ELSE ForUpdate(p, init, NULLNODE, stk)

\* parser_parse_statement, and the statement function it selects up to its
\* first call or its return
EnterStatement(p, stk) ==
    IF parser_check(p, "TOKEN_LEFT_BRACE") THEN EnterCompound(p, stk)
    ELSE IF parser_check(p, "TOKEN_IF")
    THEN LET p1 == parser_consume(p, "TOKEN_IF", "Expected 'if'")
             p2 == parser_consume(p1, "TOKEN_LEFT_PAREN", "Expected '(' after 'if'")
         IN  CallExpression(p2, [fn |-> "parser_parse_if_statement", stage |-> "condition",
                                 condition |-> NULLNODE, then_stmt |-> NULLNODE], stk)
    ELSE IF parser_check(p, "TOKEN_WHILE")
    THEN LET p1 == parser_consume(p, "TOKEN_WHILE", "Expected 'while'")
             p2 == parser_consume(p1, "TOKEN_LEFT_PAREN", "Expected '(' after 'while'")
         IN  CallExpression(p2, [fn |-> "parser_parse_while_statement",
                                 stage |-> "condition", condition |-> NULLNODE], stk)
    ELSE IF parser_check(p, "TOKEN_FOR")
    THEN LET p1 == parser_consume(p, "TOKEN_FOR", "Expected 'for'")
             p2 == parser_consume(p1, "TOKEN_LEFT_PAREN", "Expected '(' after 'for'")
             frame == [fn |-> "parser_parse_for_statement", stage |-> "init",
                       init |-> NULLNODE, condition |-> NULLNODE, update |-> NULLNODE]
         IN  IF ~parser_check(p2, "TOKEN_SEMICOLON")
             THEN IF parser_check(p2, "TOKEN_INT") \/ parser_check(p2, "TOKEN_CHAR")
                  THEN EnterDeclaration(p2, <<frame>> \o stk)
                  ELSE EnterExpressionStatement(p2, <<frame>> \o stk)
             ELSE ForCondition(parser_advance(p2), NULLNODE, stk)
    ELSE IF parser_check(p, "TOKEN_RETURN")
    THEN LET p1 == parser_consume(p, "TOKEN_RETURN", "Expected 'return'") IN
         IF ~parser_check(p1, "TOKEN_SEMICOLON")
         THEN CallExpression(p1, [fn |-> "parser_parse_return_statement",
                                  stage |-> "value"], stk)
         ELSE Return(parser_consume(p1, "TOKEN_SEMICOLON",
                                    "Expected ';' after return statement"),
                     stk, ast_create_return_stmt(NULLNODE))
    ELSE IF parser_check(p, "TOKEN_INT") \/ parser_check(p, "TOKEN_CHAR")
            \/ parser_check(p, "TOKEN_VOID")
    THEN EnterDeclaration(p, stk)
    ELSE EnterExpressionStatement(p, stk)

\* the record of the function BinaryLevels[level].fn while it waits for an
\* operand: expr and op are what it has parsed so far ("" before its first)
BinaryFrame(level, expr, op) ==
    [fn |-> BinaryLevels[level].fn, stage |-> "operand", level |-> level,
     expr |-> expr, op |-> op]

\* the records of the functions of levels level .. Len(BinaryLevels), each
\* waiting for its first operand from the next, innermost first
BinaryFrames(level) ==
    [i \in 1..(Len(BinaryLevels) - level + 1) |->
        BinaryFrame(Len(BinaryLevels) + 1 - i, NULLNODE, "")]

\* parser_parse_primary up to its return or to the expression in parentheses
EnterPrimary(p, stk) ==
    IF parser_check(p, "TOKEN_NUMBER")
    THEN LET p1 == parser_advance(p) IN
         IF p1.previous_token.value = NULL THEN Return(p1, stk, ast_create_number(0))
         ELSE Return(p1, stk, ast_create_number(atoi(p1.previous_token.value)))
    ELSE IF parser_check(p, "TOKEN_STRING")
    THEN LET p1 == parser_advance(p) IN
         Return(p1, stk, ast_create_string(p1.previous_token.value))
    ELSE IF parser_check(p, "TOKEN_IDENTIFIER")
    THEN LET p1 == parser_advance(p) IN
         Return(p1, stk, ast_create_identifier(p1.previous_token.value))
    ELSE IF parser_check(p, "TOKEN_LEFT_PAREN")
    THEN CallExpression(parser_advance(p), [fn |-> "parser_parse_primary",
                                              stage |-> "expression"], stk)
    ELSE Return(parser_error_at_current(p, "Expected expression"), stk, NULLNODE)

\* parser_parse_unary: a unary operator and the call for its operand, or
\* parser_parse_postfix, which calls parser_parse_primary
EnterUnary(p, stk) ==
    IF p.current_token.type \in {"TOKEN_LOGICAL_NOT", "TOKEN_MINUS", "TOKEN_PLUS"}
    THEN LET p1 == parser_advance(p)
             op == CASE p1.previous_token.type = "TOKEN_LOGICAL_NOT" -> "!"
                     [] p1.previous_token.type = "TOKEN_MINUS" -> "-"
                     [] p1.previous_token.type = "TOKEN_PLUS" -> "+"
                     [] OTHER -> "?"
         IN  Config(p1, <<[fn |-> "parser_parse_unary", stage |-> "operand", op |-> op]>> \o stk,
                    [op |-> "unary"])
    ELSE EnterPrimary(p, <<[fn |-> "parser_parse_postfix", stage |-> "primary",
                            call |-> NULLNODE]>> \o stk)

\* the function BinaryLevels[level].fn calls for its operand: the functions
\* of the levels below it call one another down to parser_parse_unary
EnterBinary(p, stk, level) == EnterUnary(p, BinaryFrames(level) \o stk)

\* parser_parse_assignment: parser_parse_logical_or is level 1
EnterAssignment(p, stk) ==
    EnterBinary(p, <<[fn |-> "parser_parse_assignment", stage |-> "target",
                      expr |-> NULLNODE]>> \o stk, 1)

-----------------------------------------------------------------------------
(* The stand-alone lexer, driven as the unit tests drive it                *)

\* sequences over S of length at most n
RECURSIVE SeqsUpTo(_, _)
SeqsUpTo(S, n) ==
    IF n = 0 THEN {<<>>}
    ELSE LET shorter == SeqsUpTo(S, n - 1) IN
         shorter \cup {Append(s, c) : s \in {t \in shorter : Len(t) = n - 1}, c \in S}

\* identifiers, keywords, numbers, white space and comments
WordChars == {"i", "f", "1", " ", "\n", "/", "*"}

\* operators, strings with escapes, and characters that are no token
SymbolChars == {"=", "!", "&", "+", "\"", "\\", "a", "@"}

\* every fixed lexeme of the language
Lexemes ==
    {keywords[i].word : i \in 1..Len(keywords)} \cup
    {<<c>> : c \in DOMAIN SingleCharTokens} \cup
    {<<"=">>, <<"=","=">>, <<"!">>, <<"!","=">>, <<"<">>, <<"<","=">>,
     <<">">>, <<">","=">>, <<"&","&">>, <<"|","|">>, <<"&">>, <<"|">>,
     <<"x","_","1">>, <<"4","2">>, <<"\"","h","i","\"">>, <<"\"","h">>, <<"#">>}

LexerSources ==
    SeqsUpTo(WordChars, MaxLen) \cup SeqsUpTo(SymbolChars, MaxLen) \cup
    {pre \o lx : pre \in {<<>>, <<" ">>, <<"\n", " ">>}, lx \in Lexemes}

\* the value of the variables of a component that is not running
Idle == [op |-> "idle"]

InitLexer ==
    /\ source \in LexerSources
    /\ lexer = lexer_create(source)
    /\ returned = Token("TOKEN_EOF", NULL, 0, 0)
    /\ last_call = "create"
    /\ calls = 0
    /\ parser = Idle /\ stack = <<>> /\ control = Idle
    /\ ast = Idle /\ analyzer = Idle /\ sem_stack = <<>>
    /\ sem_control = Idle
    /\ codegen = Idle /\ cpu = Idle /\ driver = Idle

\* the caller calls lexer_next_token
NextTokenCall ==
    /\ control = Idle /\ sem_control = Idle
    /\ calls < MaxCalls
    /\ lexer' = lexer_next_token(source, lexer)
    /\ returned' = lexer'.current_token
    /\ last_call' = IF last_call = "peek" THEN "next_after_peek" ELSE "next"
    /\ calls' = calls + 1
    /\ UNCHANGED <<source, parVars, semVars, genVars>>

\* the caller calls lexer_peek_token
PeekTokenCall ==
    /\ control = Idle /\ sem_control = Idle
    /\ LET r == lexer_peek_token(source, lexer) IN
         /\ lexer' = r.lexer
         /\ returned' = r.next_token
    /\ last_call' = "peek"
    /\ UNCHANGED <<source, calls, parVars, semVars, genVars>>

NextLexer == NextTokenCall \/ PeekTokenCall

SpecLexer == InitLexer /\ [][NextLexer]_vars

-----------------------------------------------------------------------------
(* Properties of the lexer                                                 *)

\* the 1-based line of the character at 0-based offset pos, counted from the text
LineAt(src, pos) == 1 + Cardinality({i \in 1..pos : src[i] = "\n"})

\* the 1-based column of the character at 0-based offset pos, counted from the text
ColumnAt(src, pos) ==
    LET newlines == {i \in 1..pos : src[i] = "\n"} IN
    IF newlines = {} THEN pos + 1
    ELSE pos + 1 - (CHOOSE i \in newlines : \A j \in newlines : j <= i)

\* the offset of the first character of the token the next call returns
TokenStart == lexer_skip_whitespace(source, lexer).position

\* C4: every non-EOF token returned by lexer_next_token carries the 1-based
\* line and column of its first character in the source.
C4_TokenPosition ==
    [][(NextTokenCall /\ returned'.type # "TOKEN_EOF") =>
          /\ returned'.line = LineAt(source, TokenStart)
          /\ returned'.column = ColumnAt(source, TokenStart)]_vars

\* C5: a call of lexer_next_token made before the end of the input consumes
\* at least one character and never runs past the end; a call made at the end
\* returns EOF and leaves position, line and column alone.
C5_LexerTerminates ==
    [][NextTokenCall =>
          /\ lexer'.position <= Len(source)
          /\ lexer.position < Len(source) => lexer'.position > lexer.position
          /\ lexer.position >= Len(source) =>
                /\ returned'.type = "TOKEN_EOF"
                /\ lexer'.position = lexer.position
                /\ lexer'.line = lexer.line
                /\ lexer'.column = lexer.column
          /\ returned.type = "TOKEN_EOF" /\ last_call # "create" =>
                returned'.type = "TOKEN_EOF"]_vars

\* a non-empty source was read to its end and EOF was returned at least twice
C5_Witness ==
    /\ last_call = "next"
    /\ returned.type = "TOKEN_EOF"
    /\ Len(source) >= 2
    /\ lexer.position = Len(source)
    /\ calls >= Len(source) + 2

\* C6: lexer_peek_token leaves the lexer (position, line, column, current
\* token) as it was; repeated peeks return the same token; and the
\* lexer_next_token that follows a peek returns a token equal to the peeked
\* one in kind, lexeme, line and column.
C6_PeekSafety ==
    [][/\ PeekTokenCall => lexer' = lexer
       /\ (PeekTokenCall /\ last_call = "peek") => returned' = returned
       /\ (NextTokenCall /\ last_call = "peek") => returned' = returned]_vars

\* a token on the second line was peeked and then read
C6_Witness ==
    /\ last_call = "next_after_peek"
    /\ returned.type = "TOKEN_IF"
    /\ returned.line = 2
    /\ lexer.position = Len(source)


-----------------------------------------------------------------------------
(* The parser, driven as main.c and the unit tests drive it:               *)
(* parser_create on a lexer over the source, then parser_parse_program     *)

MaxWords == 3
ErrLimit == 53

\* pieces of source text that programs are put together from
Words ==
    { <<";">>,
      <<")">>,
      <<"(">>,
      <<"}">>,
      <<"x">>,
      <<"1">>,
      <<"=">>,
      <<"i", "n", "t", " ", "x">>,
      <<"i", "f", "(", "x", ")">> }

\* the text before the pieces: nothing, or the head of a function body
Prefixes ==
    { <<>>,
      <<"i", "n", "t", " ", "f", "(", ")", "{">> }

\* whole programs, each statement form at least once
Programs ==
    { <<"i", "n", "t", " ", "f", "(", "i", "n", "t", " ", "a", ",", "c", "h", "a", "r", "*", "b", ")", "{", "i", "f", "(", "a", ")", "r", "e", "t", "u", "r", "n", " ", "a", ";", "e", "l", "s", "e", "{", "b", "=", "1", ";", "}", "}">>,
      <<"v", "o", "i", "d", " ", "g", "(", ")", ";", "i", "n", "t", " ", "m", "a", "i", "n", "(", ")", "{", "w", "h", "i", "l", "e", "(", "x", "<", "1", ")", "x", "=", "x", "+", "1", ";", "}">>,
      <<"i", "n", "t", " ", "f", "(", ")", "{", "f", "o", "r", "(", "i", "=", "0", ";", "i", "<", "3", ";", "i", "=", "i", "+", "1", ")", "f", "(", "i", ",", "2", ")", ";", "}">>,
      <<"i", "n", "t", " ", "f", "(", ")", "{", "f", "o", "r", "(", "i", "n", "t", " ", "i", "=", "0", ";", ";", ")", ";", "}">>,
      <<"i", "n", "t", " ", "f", "(", ")", "{", "f", "o", "r", "(", ";", ";", ")", "{", "}", "}">>,
      <<"i", "n", "t", " ", "f", "(", ")", "{", "f", "o", "r", "(", "i", "n", "t", " ", "g", "(", ")", "{", "}", ";", ";", ")", ";", "}">>,
      <<"i", "n", "t", " ", "f", "(", ")", "{", "r", "e", "t", "u", "r", "n", " ", "-", "x", "*", "!", "y", ";", "}">>,
      <<"c", "h", "a", "r", "*", "s", "=", "\"", "h", "i", "\"", ";">>,
      <<"i", "n", "t", " ", "f", "(", ")", "{", "x", "=", "(", "1", ")", "(", "2", ")", ";", "}">>,
      <<"i", "n", "t", " ", "f", "(", ")", "{", "(", ")", "(", "1", ")", ";", "}">>,
      <<"i", "n", "t", " ", "f", "(", ")", "{", "i", "f", "(", "x", ")", ";", "e", "l", "s", "e", ";", "r", "e", "t", "u", "r", "n", ";", "}">>,
      <<"i", "n", "t", " ", "f", "(", "c", "h", "a", "r">>,
      <<"i", "n", "t", " ", "f", "(", ")", "{", "i", "n", "t", " ", "x", ";", ")">> }

\* the binary operators and their spelling
BinaryOps == {"=", "||", "&&", "==", "!=", "<", "<=", ">", ">=", "+", "-", "*", "/", "%"}

OpText ==
    ("=" :> <<"=">>) @@
    ("||" :> <<"|", "|">>) @@
    ("&&" :> <<"&", "&">>) @@
    ("==" :> <<"=", "=">>) @@
    ("!=" :> <<"!", "=">>) @@
    ("<" :> <<"<">>) @@
    ("<=" :> <<"<", "=">>) @@
    (">" :> <<">">>) @@
    (">=" :> <<">", "=">>) @@
    ("+" :> <<"+">>) @@
    ("-" :> <<"-">>) @@
    ("*" :> <<"*">>) @@
    ("/" :> <<"/">>) @@
    ("%" :> <<"%">>)

\* int r=a op1 b op2 c;
PrecedenceSource(op1, op2) ==
    <<"i", "n", "t", " ", "r", "=", "a">> \o OpText[op1] \o <<"b">> \o OpText[op2]
        \o <<"c", ";">>

RECURSIVE Flatten(_)
Flatten(ws) == IF ws = <<>> THEN <<>> ELSE Head(ws) \o Flatten(Tail(ws))

ParserSources ==
    {pre \o Flatten(ws) : pre \in Prefixes, ws \in SeqsUpTo(Words, MaxWords)}
        \cup Programs
        \cup {PrecedenceSource(op1, op2) : op1 \in BinaryOps, op2 \in BinaryOps}

InitParser ==
    /\ source \in ParserSources
    /\ lexer = Idle /\ returned = Idle /\ last_call = "idle" /\ calls = 0
    /\ parser = parser_create(source)
    /\ stack = <<[fn |-> "parser_parse_program", stage |-> "declaration",
                  program |-> ast_create_program,
                  mark |-> -1, mark_errors |-> 0]>>
    /\ control = [op |-> "program_loop"]
    /\ ast = Idle /\ analyzer = Idle /\ sem_stack = <<>>
    /\ sem_control = Idle
    /\ codegen = Idle /\ cpu = Idle /\ driver = Idle

\* the machine moves to configuration cfg
Apply(cfg) ==
    /\ parser' = cfg.parser
    /\ stack' = cfg.stack
    /\ control' = cfg.control
    /\ UNCHANGED <<lexVars, semVars, genVars>>

\* a callee has returned to the function fn, which waits in stage
Returned(fn, stage) ==
    /\ control.op = "return"
    /\ Head(stack).fn = fn
    /\ Head(stack).stage = stage
    /\ Len(parser.errors) < ErrLimit

\* head of the while loop of parser_parse_program
ParseProgramLoop ==
    /\ control.op = "program_loop"
    /\ Len(parser.errors) < ErrLimit
    /\ LET top == Head(stack) IN
       IF parser_check(parser, "TOKEN_EOF")
       THEN Apply(Config(parser, Tail(stack), [op |-> "done", node |-> top.program]))
       ELSE IF Len(parser.errors) >= MAX_PARSE_ERRORS
       THEN Apply(Config(parser_error_at_current(parser, "Too many parse errors, giving up"),
                         Tail(stack), [op |-> "done", node |-> top.program]))
       ELSE Apply(EnterDeclaration(parser,
                                   <<[top EXCEPT !.mark = parser.consumed,
                                                 !.mark_errors = Len(parser.errors)]>>
                                       \o Tail(stack)))

\* rest of an iteration of parser_parse_program, after parser_parse_declaration
ProgramDeclarationParsed ==
    /\ Returned("parser_parse_program", "declaration")
    /\ LET top == Head(stack)
           program == ast_add_declaration(top.program, control.node)
           p == IF parser.panic_mode = 1 THEN parser_synchronize(parser) ELSE parser
       IN  Apply(Config(p, <<[top EXCEPT !.program = program]>> \o Tail(stack),
                        [op |-> "program_loop"]))

\* a call of parser_parse_statement
ParseStatement ==
    /\ control.op = "statement"
    /\ Len(parser.errors) < ErrLimit
    /\ Apply(EnterStatement(parser, stack))

\* head of the while loop of parser_parse_compound_statement
CompoundLoop ==
    /\ control.op = "compound_loop"
    /\ Len(parser.errors) < ErrLimit
    /\ LET top == Head(stack) IN
       IF ~parser_check(parser, "TOKEN_RIGHT_BRACE") /\ ~parser_check(parser, "TOKEN_EOF")
       THEN Apply(EnterStatement(parser, <<[top EXCEPT !.mark = parser.consumed]>>
                                             \o Tail(stack)))
       ELSE Apply(Return(parser_consume(parser, "TOKEN_RIGHT_BRACE",
                                        "Expected '}' after block"),
                         Tail(stack), top.compound))

\* rest of an iteration of parser_parse_compound_statement, after parser_parse_statement
CompoundStatementParsed ==
    /\ Returned("parser_parse_compound_statement", "statement")
    /\ LET top == Head(stack)
           compound == ast_add_statement(top.compound, control.node)
           p == IF parser.panic_mode = 1 THEN parser_synchronize(parser) ELSE parser
       IN  Apply(Config(p, <<[top EXCEPT !.compound = compound]>> \o Tail(stack),
                        [op |-> "compound_loop"]))

\* end of parser_parse_function_declaration, after the body
FunctionBodyParsed ==
    /\ Returned("parser_parse_function_declaration", "body")
    /\ Apply(Return(parser, Tail(stack),
                    [Head(stack).function EXCEPT !.body = control.node]))

\* end of parser_parse_variable_declaration, after the initializer
VariableInitializerParsed ==
    /\ Returned("parser_parse_variable_declaration", "initializer")
    /\ LET top == Head(stack) IN
       Apply(Return(parser_consume(parser, "TOKEN_SEMICOLON",
                                   "Expected ';' after variable declaration"),
                    Tail(stack),
                    ast_create_variable_decl(top.var_type, top.name, control.node)))

\* end of parser_parse_expression_statement, after the expression
ExpressionStatementParsed ==
    /\ Returned("parser_parse_expression_statement", "expression")
    /\ Apply(Return(parser_consume(parser, "TOKEN_SEMICOLON",
                                   "Expected ';' after expression"),
                    Tail(stack), ast_create_expression_stmt(control.node)))

\* end of parser_parse_return_statement, after the value
ReturnValueParsed ==
    /\ Returned("parser_parse_return_statement", "value")
    /\ Apply(Return(parser_consume(parser, "TOKEN_SEMICOLON",
                                   "Expected ';' after return statement"),
                    Tail(stack), ast_create_return_stmt(control.node)))

\* parser_parse_if_statement after the condition
IfConditionParsed ==
    /\ Returned("parser_parse_if_statement", "condition")
    /\ Apply(CallStatement(parser_consume(parser, "TOKEN_RIGHT_PAREN",
                                          "Expected ')' after if condition"),
                           [Head(stack) EXCEPT !.stage = "then",
                                               !.condition = control.node],
                           Tail(stack)))

\* parser_parse_if_statement after the then statement
IfThenParsed ==
    /\ Returned("parser_parse_if_statement", "then")
    /\ LET top == Head(stack) IN
       IF parser_check(parser, "TOKEN_ELSE")
       THEN Apply(CallStatement(parser_advance(parser),
                                [top EXCEPT !.stage = "else", !.then_stmt = control.node],
                                Tail(stack)))
       ELSE Apply(Return(parser, Tail(stack),
                         ast_create_if_stmt(top.condition, control.node, NULLNODE)))

\* parser_parse_if_statement after the else statement
IfElseParsed ==
    /\ Returned("parser_parse_if_statement", "else")
    /\ LET top == Head(stack) IN
       Apply(Return(parser, Tail(stack),
                    ast_create_if_stmt(top.condition, top.then_stmt, control.node)))

\* parser_parse_while_statement after the condition
WhileConditionParsed ==
    /\ Returned("parser_parse_while_statement", "condition")
    /\ Apply(CallStatement(parser_consume(parser, "TOKEN_RIGHT_PAREN",
                                          "Expected ')' after while condition"),
                           [Head(stack) EXCEPT !.stage = "body",
                                               !.condition = control.node],
                           Tail(stack)))

\* end of parser_parse_while_statement, after the body
WhileBodyParsed ==
    /\ Returned("parser_parse_while_statement", "body")
    /\ Apply(Return(parser, Tail(stack),
                    ast_create_while_stmt(Head(stack).condition, control.node)))

\* parser_parse_for_statement after the declaration or expression statement
\* of its init clause
ForInitParsed ==
    /\ Returned("parser_parse_for_statement", "init")
    /\ Apply(ForCondition(parser, control.node, Tail(stack)))

\* parser_parse_for_statement after its condition
ForConditionParsed ==
    /\ Returned("parser_parse_for_statement", "condition")
    /\ Apply(ForUpdate(parser, Head(stack).init, control.node, Tail(stack)))

\* parser_parse_for_statement after its update expression
ForUpdateParsed ==
    /\ Returned("parser_parse_for_statement", "update")
    /\ Apply(CallStatement(parser_consume(parser, "TOKEN_RIGHT_PAREN",
                                          "Expected ')' after for clauses"),
                           [Head(stack) EXCEPT !.stage = "body", !.update = control.node],
                           Tail(stack)))

\* end of parser_parse_for_statement, after the body
ForBodyParsed ==
    /\ Returned("parser_parse_for_statement", "body")
    /\ LET top == Head(stack) IN
       Apply(Return(parser, Tail(stack),
                    ast_create_for_stmt(top.init, top.condition, top.update, control.node)))

\* a call of parser_parse_expression, which calls parser_parse_assignment
ParseExpression ==
    /\ control.op = "expression"
    /\ Len(parser.errors) < ErrLimit
    /\ Apply(EnterAssignment(parser, stack))

\* parser_parse_assignment after parser_parse_logical_or
AssignmentTargetParsed ==
    /\ Returned("parser_parse_assignment", "target")
    /\ IF parser_check(parser, "TOKEN_ASSIGN")
       THEN Apply(EnterAssignment(parser_advance(parser),
                                  <<[Head(stack) EXCEPT !.stage = "value",
                                                        !.expr = control.node]>>
                                      \o Tail(stack)))
       ELSE Apply(Return(parser, Tail(stack), control.node))

\* end of parser_parse_assignment, after the value assigned
AssignmentValueParsed ==
    /\ Returned("parser_parse_assignment", "value")
    /\ Apply(Return(parser, Tail(stack),
                    ast_create_binary_op("=", Head(stack).expr, control.node)))

\* the while loop of the function of a binary level, after an operand
BinaryOperandParsed ==
    /\ control.op = "return"
    /\ Head(stack).fn \in {BinaryLevels[l].fn : l \in 1..Len(BinaryLevels)}
    /\ Len(parser.errors) < ErrLimit
    /\ LET top == Head(stack)
           expr == IF top.op = "" THEN control.node
                   ELSE ast_create_binary_op(top.op, top.expr, control.node)
       IN  IF parser.current_token.type \in DOMAIN BinaryLevels[top.level].ops
           THEN LET p1 == parser_advance(parser)
                    op == BinaryLevels[top.level].ops[p1.previous_token.type]
                IN  Apply(EnterBinary(p1, <<BinaryFrame(top.level, expr, op)>>
                                              \o Tail(stack),
                                      top.level + 1))
           ELSE Apply(Return(parser, Tail(stack), expr))

\* a call of parser_parse_unary for the operand of a unary operator
ParseUnary ==
    /\ control.op = "unary"
    /\ Len(parser.errors) < ErrLimit
    /\ Apply(EnterUnary(parser, stack))

\* end of parser_parse_unary, after the operand
UnaryOperandParsed ==
    /\ Returned("parser_parse_unary", "operand")
    /\ Apply(Return(parser, Tail(stack),
                    ast_create_unary_op(Head(stack).op, control.node)))

\* head of the while loop of parser_parse_postfix: expr is the primary, or
\* the call built by the iteration before.  expr->type is read without a
\* NULL check.
PostfixLoop ==
    /\ Returned("parser_parse_postfix", "primary")
    /\ LET expr == control.node IN
       IF parser_check(parser, "TOKEN_LEFT_PAREN")
       THEN LET p1 == parser_advance(parser) IN
            IF expr = NULLNODE
            THEN \E outcome \in UBOutcomes :
                    LET p2 == [p1 EXCEPT !.null_deref = TRUE] IN
                    IF outcome = "segv"
                    THEN Apply(Config([p2 EXCEPT !.crashed = TRUE], stack, control))
                    ELSE Apply(Return(parser_error_at_previous(
                                          p2, "Can only call identifiers"),
                                      Tail(stack), NULLNODE))
            ELSE IF expr.type # "AST_IDENTIFIER"
            THEN Apply(Return(parser_error_at_previous(p1, "Can only call identifiers"),
                              Tail(stack), NULLNODE))
            ELSE LET call == ast_create_function_call(expr.name) IN
                 IF ~parser_check(p1, "TOKEN_RIGHT_PAREN")
                 THEN Apply(CallExpression(p1, [Head(stack) EXCEPT !.stage = "arguments",
                                                                   !.call = call],
                                           Tail(stack)))
                 ELSE Apply(Return(parser_consume(p1, "TOKEN_RIGHT_PAREN",
                                       "Expected ')' after function arguments"),
                                   stack, call))
       ELSE Apply(Return(parser, Tail(stack), expr))

\* the do-while loop over the arguments of a call, after an argument
PostfixArgumentParsed ==
    /\ Returned("parser_parse_postfix", "arguments")
    /\ LET top == Head(stack)
           call == ast_add_argument(top.call, control.node)
       IN  IF parser_check(parser, "TOKEN_COMMA")
           THEN Apply(CallExpression(parser_advance(parser), [top EXCEPT !.call = call],
                                     Tail(stack)))
           ELSE Apply(Return(parser_consume(parser, "TOKEN_RIGHT_PAREN",
                                 "Expected ')' after function arguments"),
                             <<[top EXCEPT !.stage = "primary", !.call = NULLNODE]>>
                                 \o Tail(stack),
                             call))

\* end of parser_parse_primary, after the expression in parentheses
PrimaryExpressionParsed ==
    /\ Returned("parser_parse_primary", "expression")
    /\ Apply(Return(parser_consume(parser, "TOKEN_RIGHT_PAREN",
                                   "Expected ')' after expression"),
                    Tail(stack), control.node))

NextParser ==
    \/ ParseProgramLoop
    \/ ProgramDeclarationParsed
    \/ ParseStatement
    \/ CompoundLoop
    \/ CompoundStatementParsed
    \/ FunctionBodyParsed
    \/ VariableInitializerParsed
    \/ ExpressionStatementParsed
    \/ ReturnValueParsed
    \/ IfConditionParsed
    \/ IfThenParsed
    \/ IfElseParsed
    \/ WhileConditionParsed
    \/ WhileBodyParsed
    \/ ForInitParsed
    \/ ForConditionParsed
    \/ ForUpdateParsed
    \/ ForBodyParsed
    \/ ParseExpression
    \/ AssignmentTargetParsed
    \/ AssignmentValueParsed
    \/ BinaryOperandParsed
    \/ ParseUnary
    \/ UnaryOperandParsed
    \/ PostfixLoop
    \/ PostfixArgumentParsed
    \/ PrimaryExpressionParsed

SpecParser == InitParser /\ [][NextParser]_vars

-----------------------------------------------------------------------------
(* Properties of the parser                                                *)

\* C1: parser_parse_program returns normally for every token stream: it
\* never dereferences a NULL pointer, in particular not when a parenthesised
\* primary that yielded no expression is followed by the '(' of a call.
C1_ParserNeverCrashes == ~parser.null_deref /\ control.op # "crashed"

\* the loop whose head control is at goes round once more
LoopContinues ==
    \/ /\ control.op = "compound_loop"
       /\ ~parser_check(parser, "TOKEN_RIGHT_BRACE")
       /\ ~parser_check(parser, "TOKEN_EOF")
    \/ /\ control.op = "program_loop"
       /\ ~parser_check(parser, "TOKEN_EOF")
       /\ Len(parser.errors) < MAX_PARSE_ERRORS

\* C2: parsing terminates.  An iteration of the compound-statement loop
\* either consumes at least one token or ends the loop, also when the
\* statement failed to parse right after a ';'; an iteration of the
\* declaration loop either consumes at least one token, or ends the loop, or
\* records an error and so moves towards the cap at which the parser gives up.
C2_LoopsMakeProgress ==
    (LoopContinues /\ Head(stack).mark >= 0) =>
        \/ parser.consumed > Head(stack).mark
        \/ /\ control.op = "program_loop"
           /\ Len(parser.errors) > Head(stack).mark_errors

\* C3: the error list never holds more than MAX_PARSE_ERRORS entries plus the
\* final "Too many parse errors, giving up", wherever the errors occur.
C3_ErrorListCapped == Len(parser.errors) <= MAX_PARSE_ERRORS + 1

\* the level of a binary operator in the precedence ladder, lowest first
LadderLevel(op) ==
    CASE op = "=" -> 1
      [] op = "||" -> 2
      [] op = "&&" -> 3
      [] op \in {"==", "!="} -> 4
      [] op \in {"<", "<=", ">", ">="} -> 5
      [] op \in {"+", "-"} -> 6
      [] op \in {"*", "/", "%"} -> 7

\* the initializer of the first declaration of the program returned
ParsedInitializer == control.node.declarations[1].initializer

\* the identifier nodes of a, b and c
IdA == ast_create_identifier(<<"a">>)
IdB == ast_create_identifier(<<"b">>)
IdC == ast_create_identifier(<<"c">>)

\* C7: binary operators nest by the precedence ladder.  In a op1 b op2 c
\* with op1 on a lower level than op2 the tree is op1(a, op2(b, c)); with
\* both on the same level it is op2(op1(a, b), c), except for '=', which
\* is right-associative: a = b = c is =(a, =(b, c)).
C7_PrecedenceLadder ==
    \A op1 \in BinaryOps, op2 \in BinaryOps :
        (control.op = "done" /\ source = PrecedenceSource(op1, op2)) =>
            /\ Len(parser.errors) = 0
            /\ LadderLevel(op1) < LadderLevel(op2) =>
                  ParsedInitializer =
                      ast_create_binary_op(op1, IdA, ast_create_binary_op(op2, IdB, IdC))
            /\ (LadderLevel(op1) = LadderLevel(op2) /\ op1 # "=") =>
                  ParsedInitializer =
                      ast_create_binary_op(op2, ast_create_binary_op(op1, IdA, IdB), IdC)
            /\ (op1 = "=" /\ op2 = "=") =>
                  ParsedInitializer =
                      ast_create_binary_op("=", IdA, ast_create_binary_op("=", IdB, IdC))

\* a - b * c has been parsed, and the root is the '-'
C7_Witness ==
    /\ control.op = "done"
    /\ source = PrecedenceSource("-", "*")
    /\ ParsedInitializer.oper = "-"
    /\ ParsedInitializer.right.oper = "*"

-----------------------------------------------------------------------------
(* The semantic analyzer (src/semantic.c)                                  *)
(*                                                                         *)
(* A symbol table is the sequence of its symbols (the hash buckets only    *)
(* speed up the search by name).  The scope chain current_scope, parent,   *)
(* ... is the sequence analyzer.scopes, innermost scope first.  Three      *)
(* fields are history, not program state: a symbol's id (the order of      *)
(* declaration), a scope's path (the place in the AST of the construct     *)
(* that pushed it) and analyzer.log (what the analyzer declared, looked    *)
(* up and checked).                                                        *)

NULLSYM == [type |-> "NULL"]

\* a formatted message: the format string and the values printed into it
Format(format, args) == [format |-> format, args |-> args]

data_type_to_string(type) ==
    CASE type = "TYPE_INT" -> "int"
      [] type = "TYPE_CHAR" -> "char"
      [] type = "TYPE_VOID" -> "void"
      [] type = "TYPE_CHAR_PTR" -> "char*"
      [] OTHER -> "unknown"

symbol_table_lookup(table, name) ==
    IF \E i \in 1..Len(table) : table[i].name = name
    THEN table[CHOOSE i \in 1..Len(table) : table[i].name = name]
    ELSE NULLSYM

symbol_table_insert(table, symbol) ==
    IF symbol_table_lookup(table, symbol.name) # NULLSYM
    THEN [ok |-> 0, table |-> table]
    ELSE [ok |-> 1, table |-> <<symbol>> \o table]

symbol_create(name, type, data_type) ==
    [name |-> name, type |-> type, data_type |-> data_type, scope_level |-> 0,
     function_info |-> [parameter_types |-> <<>>, parameter_count |-> 0, defined |-> 0],
     id |-> 0]

scope_create(level, path) ==
    [symbols |-> <<>>, level |-> level, path |-> path]

semantic_push_scope(A, path) ==
    [A EXCEPT !.scopes = <<scope_create(A.scope_level + 1, path)>> \o @,
              !.scope_level = @ + 1]

semantic_create ==
    semantic_push_scope(
        [scopes |-> <<>>, scope_level |-> 0, errors |-> <<>>,
         current_function_return_type |-> "TYPE_VOID",
         current_function_name |-> NULL,
         declared |-> 0, log |-> <<>>],
        <<>>)

\* a variant that forgets to unlink the scope it leaves
semantic_pop_scope_linked(A) ==
    IF A.scopes = <<>> THEN A ELSE [A EXCEPT !.scope_level = @ - 1]

semantic_pop_scope(A) ==
    IF A.scopes = <<>>
    THEN A
    ELSE [A EXCEPT !.scopes = Tail(@), !.scope_level = @ - 1]

\* the loop of semantic_lookup_symbol over the scope chain
RECURSIVE lookup_loop(_, _)
lookup_loop(scopes, name) ==
    IF scopes = <<>>
    THEN NULLSYM
    ELSE LET symbol == symbol_table_lookup(Head(scopes).symbols, name)
         IN  IF symbol # NULLSYM THEN symbol ELSE lookup_loop(Tail(scopes), name)

semantic_lookup_symbol(A, name) == lookup_loop(A.scopes, name)

\* the analyzer after a lookup made for the statement at `at`, recorded in the log
Looked(A, name, at) ==
    [A EXCEPT !.log = Append(@, [ev |-> "lookup", name |-> name, at |-> at,
                                 symbol |-> semantic_lookup_symbol(A, name)])]

\* a variant in which a later declaration replaces the symbol of the same name
semantic_declare_symbol_replacing(A, symbol) ==
    IF A.scopes = <<>>
    THEN [ok |-> 0, analyzer |-> A]
    ELSE LET s == [symbol EXCEPT !.scope_level = A.scope_level, !.id = A.declared + 1]
             kept == SelectSeq(Head(A.scopes).symbols, LAMBDA old : old.name # symbol.name)
         IN  [ok |-> 1,
              analyzer |-> [A EXCEPT !.scopes[1].symbols = <<s>> \o kept,
                                     !.declared = @ + 1,
                                     !.log = Append(@, [ev |-> "declare", symbol |-> s,
                                                        path |-> Head(A.scopes).path])]]

semantic_declare_symbol(A, symbol) ==
    IF A.scopes = <<>> \/ symbol_table_lookup(Head(A.scopes).symbols, symbol.name) # NULLSYM
    THEN [ok |-> 0, analyzer |-> A]
    ELSE LET s == [symbol EXCEPT !.scope_level = A.scope_level, !.id = A.declared + 1]
             r == symbol_table_insert(Head(A.scopes).symbols, s)
         IN  [ok |-> r.ok,
              analyzer |-> [A EXCEPT !.scopes[1].symbols = r.table,
                                     !.declared = @ + 1,
                                     !.log = Append(@, [ev |-> "declare", symbol |-> s,
                                                        path |-> Head(A.scopes).path])]]

semantic_error_at(A, message, line, column, context) ==
    [A EXCEPT !.errors = Append(@, [message |-> message, line |-> line,
                                    column |-> column, context |-> context])]

semantic_error(A, message, node) ==
    semantic_error_at(A, message, 0, 0, IF node # NULLNODE THEN "AST node" ELSE "unknown")

semantic_has_errors(A) == Len(A.errors) > 0

\* a variant that accepts every pair of types
semantic_types_compatible_any(type1, type2) == TRUE

semantic_types_compatible(type1, type2) == type1 = type2

semantic_type_is_numeric(type) == type = "TYPE_INT" \/ type = "TYPE_CHAR"

semantic_type_is_boolean_context(type) == semantic_type_is_numeric(type)

semantic_get_binary_result_type(oper, left, right) ==
    CASE oper = "=" ->
            IF semantic_types_compatible(left, right) THEN left ELSE "TYPE_VOID"
      [] oper \in {"+", "-", "*", "/", "%"} ->
            IF semantic_type_is_numeric(left) /\ semantic_type_is_numeric(right)
            THEN "TYPE_INT" ELSE "TYPE_VOID"
      [] oper \in {"<", ">", "<=", ">=", "==", "!="} ->
            IF semantic_types_compatible(left, right) THEN "TYPE_INT" ELSE "TYPE_VOID"
      [] oper \in {"&&", "||"} ->
            IF semantic_type_is_boolean_context(left) /\ semantic_type_is_boolean_context(right)
            THEN "TYPE_INT" ELSE "TYPE_VOID"
      [] OTHER -> "TYPE_VOID"

semantic_get_unary_result_type(oper, operand) ==
    CASE oper \in {"-", "+"} ->
            IF semantic_type_is_numeric(operand) THEN "TYPE_INT" ELSE "TYPE_VOID"
      [] oper = "!" ->
            IF semantic_type_is_boolean_context(operand) THEN "TYPE_INT" ELSE "TYPE_VOID"
      [] OTHER -> "TYPE_VOID"

\* what an expression analysis returns: the analyzer it leaves and the data_type_t
T(A, type) == [analyzer |-> A, type |-> type]

\* the analyzer with one more entry in its history
Logged(A, entry) == [A EXCEPT !.log = Append(@, entry)]

\* Expressions are analysed for the statement at `at`, which only the
\* history uses.
RECURSIVE semantic_analyze_expression(_, _, _)
RECURSIVE arguments_loop(_, _, _, _, _)

semantic_analyze_identifier(A, node, at) ==
    LET symbol == semantic_lookup_symbol(A, node.name)
        A1 == Looked(A, node.name, at)
    IN  IF symbol = NULLSYM
        THEN T(semantic_error(A1, Format("Undefined identifier '%s'", <<node.name>>), node),
               "TYPE_VOID")
        ELSE T(A1, symbol.data_type)

\* the history entry of a binary operation: the operand types found, the
\* type returned, and the length of the error list after the operands were
\* analysed and at the return
semantic_analyze_binary_op(A, node, at) ==
    LET l == semantic_analyze_expression(A, node.left, at)
        r == semantic_analyze_expression(l.analyzer, node.right, at)
        result_type == semantic_get_binary_result_type(node.oper, l.type, r.type)
        A1 == IF result_type = "TYPE_VOID"
              THEN semantic_error(r.analyzer,
                       Format("Cannot apply oper '%s' to types '%s' and '%s'",
                              <<node.oper, data_type_to_string(l.type),
                                data_type_to_string(r.type)>>), node)
              ELSE r.analyzer
    IN  T(Logged(A1, [ev |-> "binary_op", oper |-> node.oper, at |-> at,
                      left |-> node.left,
                      left_type |-> l.type, right_type |-> r.type, type |-> result_type,
                      operands_done |-> Len(r.analyzer.errors),
                      returned |-> Len(A1.errors)]),
          result_type)

semantic_analyze_unary_op(A, node, at) ==
    LET o == semantic_analyze_expression(A, node.operand, at)
        result_type == semantic_get_unary_result_type(node.oper, o.type)
    IN  IF result_type = "TYPE_VOID"
        THEN T(semantic_error(o.analyzer,
                   Format("Cannot apply unary oper '%s' to type '%s'",
                          <<node.oper, data_type_to_string(o.type)>>), node),
               "TYPE_VOID")
        ELSE T(o.analyzer, result_type)

\* the for loop of semantic_analyze_function_call over the arguments, from
\* argument i on; inner counts the errors the arguments' own analyses appended
arguments_loop(A, node, func_symbol, i, at) ==
    IF i > Len(node.arguments)
    THEN [analyzer |-> A, inner |-> 0]
    ELSE LET arg == semantic_analyze_expression(A, node.arguments[i], at)
             param_type == func_symbol.function_info.parameter_types[i]
             A1 == IF ~semantic_types_compatible(param_type, arg.type)
                   THEN semantic_error(arg.analyzer,
                            Format("Argument %zu to function '%s' has type '%s', expected '%s'",
                                   <<i, node.name, data_type_to_string(arg.type),
                                     data_type_to_string(param_type)>>),
                            node.arguments[i])
                   ELSE arg.analyzer
             rest == arguments_loop(A1, node, func_symbol, i + 1, at)
         IN  [analyzer |-> rest.analyzer,
              inner |-> rest.inner + (Len(arg.analyzer.errors) - Len(A.errors))]

\* the history entry of a call: the symbol the name resolved to, the
\* arguments and the type the analysis of each yields here, the type
\* returned, the length of the error list at entry and at the return, and
\* how many errors the arguments' own analyses appended
semantic_analyze_function_call(A, node, at) ==
    LET func_symbol == semantic_lookup_symbol(A, node.name)
        A0 == Looked(A, node.name, at)
        Entry(B, inner, type) ==
            [ev |-> "call", name |-> node.name, symbol |-> func_symbol,
             arguments |-> node.arguments, at |-> at, type |-> type,
             argument_types |-> [i \in 1..Len(node.arguments) |->
                 semantic_analyze_expression(A0, node.arguments[i], at).type],
             entered |-> Len(A.errors), inner |-> inner, returned |-> Len(B.errors)]
        Leave(B, inner, type) == T(Logged(B, Entry(B, inner, type)), type)
    IN  IF func_symbol = NULLSYM
        THEN Leave(semantic_error(A0, Format("Undefined function '%s'", <<node.name>>), node),
                   0, "TYPE_VOID")
        ELSE IF func_symbol.type # "SYMBOL_FUNCTION"
        THEN Leave(semantic_error(A0, Format("'%s' is not a function", <<node.name>>), node),
                   0, "TYPE_VOID")
        ELSE IF Len(node.arguments) # func_symbol.function_info.parameter_count
        THEN Leave(semantic_error(A0,
                       Format("Function '%s' expects %zu arguments, got %zu",
                              <<node.name, func_symbol.function_info.parameter_count,
                                Len(node.arguments)>>), node),
                   0, func_symbol.data_type)
        ELSE LET args == arguments_loop(A0, node, func_symbol, 1, at)
             IN  Leave(args.analyzer, args.inner, func_symbol.data_type)

semantic_analyze_expression(A, node, at) ==
    IF node = NULLNODE
    THEN T(A, "TYPE_VOID")
    ELSE CASE node.type = "AST_BINARY_OP" -> semantic_analyze_binary_op(A, node, at)
           [] node.type = "AST_UNARY_OP" -> semantic_analyze_unary_op(A, node, at)
           [] node.type = "AST_FUNCTION_CALL" -> semantic_analyze_function_call(A, node, at)
           [] node.type = "AST_IDENTIFIER" -> semantic_analyze_identifier(A, node, at)
           [] node.type = "AST_NUMBER" -> T(A, "TYPE_INT")
           [] node.type = "AST_STRING" -> T(A, "TYPE_CHAR_PTR")
           [] OTHER -> T(semantic_error(A, Format("Unknown expression type", <<>>), node),
                         "TYPE_VOID")

\* what an int-returning semantic_analyze_* function returns, with the analyzer it leaves
S(A, value) == [analyzer |-> A, value |-> value]

\* one iteration of the first pass of semantic_analyze_program
declare_function(A, decl, success) ==
    IF decl.type = "AST_FUNCTION_DECL"
    THEN LET symbol ==
                 [symbol_create(decl.name, "SYMBOL_FUNCTION", decl.return_type)
                      EXCEPT !.function_info =
                          [parameter_types |-> [j \in 1..Len(decl.parameters) |->
                                                    decl.parameters[j].param_type],
                           parameter_count |-> Len(decl.parameters),
                           defined |-> IF decl.body # NULLNODE THEN 1 ELSE 0]]
             d == semantic_declare_symbol(A, symbol)
         IN  IF d.ok = 0
             THEN S(semantic_error(A, Format("Function '%s' already declared",
                                             <<decl.name>>), decl), 0)
             ELSE S(d.analyzer, success)
    ELSE S(A, success)

\* the loop of semantic_analyze_function_decl that declares the parameters, from parameter i on
RECURSIVE declare_parameters(_, _, _, _)
declare_parameters(A, node, i, success) ==
    IF i > Len(node.parameters)
    THEN S(A, success)
    ELSE LET param == node.parameters[i]
             d == semantic_declare_symbol(
                      A, symbol_create(param.name, "SYMBOL_PARAMETER", param.param_type))
         IN  IF d.ok = 0
             THEN declare_parameters(
                      semantic_error(A, Format("Parameter '%s' already declared",
                                               <<param.name>>), param),
                      node, i + 1, 0)
             ELSE declare_parameters(d.analyzer, node, i + 1, success)

semantic_analyze_variable_decl(A, node, at) ==
    LET d == semantic_declare_symbol(
                 A, symbol_create(node.name, "SYMBOL_VARIABLE", node.var_type))
    IN  IF d.ok = 0
        THEN S(semantic_error(A, Format("Variable '%s' already declared", <<node.name>>),
                              node), 0)
        ELSE IF node.initializer # NULLNODE
        THEN LET init == semantic_analyze_expression(d.analyzer, node.initializer, at)
             IN  IF ~semantic_types_compatible(node.var_type, init.type)
                 THEN S(semantic_error(init.analyzer,
                            Format("Cannot initialize variable '%s' of type '%s' with expression of type '%s'",
                                   <<node.name, data_type_to_string(node.var_type),
                                     data_type_to_string(init.type)>>),
                            node.initializer), 0)
                 ELSE S(init.analyzer, 1)
        ELSE S(d.analyzer, 1)

semantic_analyze_return_stmt(A, node, at) ==
    IF node.value # NULLNODE
    THEN LET value == semantic_analyze_expression(A, node.value, at)
         IN  IF ~semantic_types_compatible(A.current_function_return_type, value.type)
             THEN S(semantic_error(value.analyzer,
                        Format("Return type '%s' does not match function return type '%s'",
                               <<data_type_to_string(value.type),
                                 data_type_to_string(A.current_function_return_type)>>),
                        node.value), 0)
             ELSE S(value.analyzer, 1)
    ELSE IF A.current_function_return_type # "TYPE_VOID"
    THEN S(semantic_error(A, Format("Function '%s' must return a value",
                                    <<IF A.current_function_name # NULL
                                      THEN A.current_function_name
                                      ELSE <<"u","n","k","n","o","w","n">> >>), node), 0)
    ELSE S(A, 1)

semantic_analyze_expression_stmt(A, node, at) ==
    IF node.expression # NULLNODE
    THEN S(semantic_analyze_expression(A, node.expression, at).analyzer, 1)
    ELSE S(A, 1)

\* the condition check shared by if, while and for: the analyzer after the
\* condition was analysed, and the success flag
analyze_condition(A, condition, message, at, success) ==
    LET cond == semantic_analyze_expression(A, condition, at)
    IN  IF ~semantic_type_is_boolean_context(cond.type)
        THEN S(semantic_error(cond.analyzer, Format(message, <<>>), condition), 0)
        ELSE S(cond.analyzer, success)

(* The analyzer as a machine.  sem_stack holds the frames of the           *)
(* semantic_analyze_* functions that wait for a statement they called;     *)
(* sem_control says what runs next: a loop head ("program", "compound"),   *)
(* a call ("statement"), or the return of a value to the frame on top      *)
(* ("returned").  A configuration is the triple the next step produces.    *)

SemConfig(A, stk, ctl) == [analyzer |-> A, stack |-> stk, control |-> ctl]

SemReturn(A, stk, value) == SemConfig(A, stk, [op |-> "returned", value |-> value])

\* the call semantic_analyze_statement(analyzer, node) made by the function of `frame`
SemCallStatement(A, frame, stk, node, path) ==
    SemConfig(A, <<frame>> \o stk, [op |-> "statement", node |-> node, path |-> path])

\* semantic_analyze_compound_stmt up to the head of its loop
EnterCompoundStmt(A, stk, node, path) ==
    IF node = NULLNODE \/ node.type # "AST_COMPOUND_STMT"
    THEN SemReturn(A, stk, 0)
    ELSE SemConfig(semantic_push_scope(A, path),
                   <<[fn |-> "semantic_analyze_compound_stmt", stage |-> "loop",
                      node |-> node, i |-> 1, success |-> 1, path |-> path]>> \o stk,
                   [op |-> "compound"])

\* semantic_analyze_function_decl up to its return or to the call for its body
EnterFunctionDecl(A, stk, node, path) ==
    LET A1 == [A EXCEPT !.current_function_return_type = node.return_type,
                        !.current_function_name = node.name]
    IN  IF node.body = NULLNODE
        THEN SemReturn(A1, stk, 1)
        ELSE LET params == declare_parameters(semantic_push_scope(A1, path), node, 1, 1)
             IN  EnterCompoundStmt(params.analyzer,
                                   <<[fn |-> "semantic_analyze_function_decl",
                                      stage |-> "body",
                                      success |-> params.value]>> \o stk,
                                   node.body, path \o <<0>>)

\* semantic_analyze_if_stmt up to the call for its then branch
EnterIfStmt(A, stk, node, path) ==
    LET c == analyze_condition(A, node.condition,
                               "If condition must be boolean expression", path, 1)
    IN  SemCallStatement(c.analyzer,
                         [fn |-> "semantic_analyze_if_stmt", stage |-> "then",
                          node |-> node, success |-> c.value, path |-> path],
                         stk, node.then_stmt, path \o <<1>>)

\* semantic_analyze_while_stmt up to the call for its body
EnterWhileStmt(A, stk, node, path) ==
    LET c == analyze_condition(A, node.condition,
                               "While condition must be boolean expression", path, 1)
    IN  SemCallStatement(c.analyzer,
                         [fn |-> "semantic_analyze_while_stmt", stage |-> "body",
                          success |-> c.value],
                         stk, node.body, path \o <<1>>)

\* semantic_analyze_for_stmt from its condition to the call for its body
ForRest(A, stk, node, path, success) ==
    LET c == IF node.condition # NULLNODE
             THEN analyze_condition(A, node.condition,
                                    "For condition must be boolean expression",
                                    path, success)
             ELSE S(A, success)
        A1 == IF node.update # NULLNODE
              THEN semantic_analyze_expression(c.analyzer, node.update, path).analyzer
              ELSE c.analyzer
    IN  SemCallStatement(A1, [fn |-> "semantic_analyze_for_stmt", stage |-> "body",
                              success |-> c.value],
                         stk, node.body, path \o <<2>>)

\* semantic_analyze_for_stmt up to the first statement it calls
EnterForStmt(A, stk, node, path) ==
    LET A1 == semantic_push_scope(A, path)
    IN  IF node.init # NULLNODE
        THEN SemCallStatement(A1, [fn |-> "semantic_analyze_for_stmt", stage |-> "init",
                                   node |-> node, success |-> 1, path |-> path],
                              stk, node.init, path \o <<1>>)
        ELSE ForRest(A1, stk, node, path, 1)

\* semantic_analyze_statement up to its return or to the next statement it calls
semantic_analyze_statement(A, stk, node, path) ==
    IF node = NULLNODE
    THEN SemReturn(A, stk, 1)
    ELSE CASE node.type = "AST_COMPOUND_STMT" -> EnterCompoundStmt(A, stk, node, path)
           [] node.type = "AST_IF_STMT" -> EnterIfStmt(A, stk, node, path)
           [] node.type = "AST_WHILE_STMT" -> EnterWhileStmt(A, stk, node, path)
           [] node.type = "AST_FOR_STMT" -> EnterForStmt(A, stk, node, path)
           [] node.type = "AST_RETURN_STMT" ->
                LET r == semantic_analyze_return_stmt(A, node, path)
                IN  SemReturn(r.analyzer, stk, r.value)
           [] node.type = "AST_EXPRESSION_STMT" ->
                LET r == semantic_analyze_expression_stmt(A, node, path)
                IN  SemReturn(r.analyzer, stk, r.value)
           [] node.type = "AST_VARIABLE_DECL" ->
                LET r == semantic_analyze_variable_decl(A, node, path)
                IN  SemReturn(r.analyzer, stk, r.value)
           [] OTHER ->
                SemReturn(semantic_error(A, Format("Unknown statement type", <<>>), node),
                          stk, 0)

-----------------------------------------------------------------------------
(* The analyzer under test: semantic_analyze on the AST of a program       *)

\* the longest list of statements in a function body of the scoping programs
MaxStmts == 3

\* the longest argument list of the calls analysed
MaxArgs == 2

Compound(statements) == [ast_create_compound_stmt EXCEPT !.statements = statements]

Call(name, arguments) == [ast_create_function_call(name) EXCEPT !.arguments = arguments]

Function(return_type, name, parameters, body) ==
    [ast_create_function_decl(return_type, name)
         EXCEPT !.parameters = parameters, !.body = body]

Program(declarations) == [ast_create_program EXCEPT !.declarations = declarations]

Variable(var_type, name) == ast_create_variable_decl(var_type, <<name>>, NULLNODE)

Use(name) == ast_create_identifier(<<name>>)

One == ast_create_number(1)

\* int main(){ <statements> }
Main(statements) == Function("TYPE_INT", <<"m","a","i","n">>, <<>>, Compound(statements))

DataTypes == {"TYPE_INT", "TYPE_CHAR", "TYPE_VOID", "TYPE_CHAR_PTR"}

\* an expression of each type: 1, the char variable c, a call of the void
\* function v, and a string literal
Operand(type) ==
    CASE type = "TYPE_INT" -> One
      [] type = "TYPE_CHAR" -> Use("c")
      [] type = "TYPE_VOID" -> Call(<<"v">>, <<>>)
      [] type = "TYPE_CHAR_PTR" -> ast_create_string(<<"s">>)

\* char c; void v(){} int g(int a){}
Prelude ==
    << Variable("TYPE_CHAR", "c"),
       Function("TYPE_VOID", <<"v">>, <<>>, Compound(<<>>)),
       Function("TYPE_INT", <<"g">>, <<ast_create_parameter("TYPE_INT", <<"a">>)>>,
                Compound(<<>>)) >>

\* char c; void v(){} int g(int a){} int main(){ <left> op <right>; }
BinaryPrograms ==
    { Program(Prelude \o
              <<Main(<<ast_create_expression_stmt(
                           ast_create_binary_op(op, Operand(lt), Operand(rt)))>>)>>) :
        op \in BinaryOps, lt \in DataTypes, rt \in DataTypes }

\* the arguments of the calls: 1, c, "s", v(), the undeclared u, and g(1, 1),
\* a call with one argument too many
Arguments ==
    { One, Use("c"), ast_create_string(<<"s">>), Call(<<"v">>, <<>>), Use("u"),
      Call(<<"g">>, <<One, One>>) }

ArgumentLists == UNION { [1..n -> Arguments] : n \in 0..MaxArgs }

\* what f is where it is called: nothing, a variable, a function of zero,
\* one or two parameters, or a function hidden by a local variable
Callees ==
    { <<>>,
      <<Variable("TYPE_INT", "f")>>,
      <<Function("TYPE_CHAR", <<"f">>, <<>>, NULLNODE)>>,
      <<Function("TYPE_CHAR_PTR", <<"f">>, <<ast_create_parameter("TYPE_INT", <<"a">>)>>,
                 Compound(<<>>))>>,
      <<Function("TYPE_VOID", <<"f">>,
                 <<ast_create_parameter("TYPE_INT", <<"a">>),
                   ast_create_parameter("TYPE_CHAR", <<"b">>)>>,
                 Compound(<<>>))>> }

\* <prelude> <f> int main(){ f(<arguments>); }, and the same with the local
\* declaration int f; before the call
CallPrograms ==
    { Program(Prelude \o callee \o
              <<Main(local \o <<ast_create_expression_stmt(Call(<<"f">>, arguments))>>)>>) :
        callee \in Callees, arguments \in ArgumentLists,
        local \in {<<>>, <<Variable("TYPE_INT", "f")>>} }

\* statements that declare or use x:
\*   int x;   x;   { char* x; x; }   for (char x; x; x) x;
\*   if (x) { int x; } else x;   while (x) int x = x;   return x;
ScopeStatements ==
    { Variable("TYPE_INT", "x"),
      ast_create_expression_stmt(Use("x")),
      Compound(<<Variable("TYPE_CHAR_PTR", "x"), ast_create_expression_stmt(Use("x"))>>),
      ast_create_for_stmt(Variable("TYPE_CHAR", "x"), Use("x"), Use("x"),
                          ast_create_expression_stmt(Use("x"))),
      ast_create_if_stmt(Use("x"), Compound(<<Variable("TYPE_INT", "x")>>),
                         ast_create_expression_stmt(Use("x"))),
      ast_create_while_stmt(Use("x"),
                            ast_create_variable_decl("TYPE_INT", <<"x">>, Use("x"))),
      ast_create_return_stmt(Use("x")) }

\* [char* x;] int main([char x]){ <statements> }
ScopePrograms ==
    { Program(global \o
              <<Function("TYPE_INT", <<"m","a","i","n">>, parameters, Compound(body))>>) :
        global \in {<<>>, <<Variable("TYPE_CHAR_PTR", "x")>>},
        parameters \in {<<>>, <<ast_create_parameter("TYPE_CHAR", <<"x">>)>>},
        body \in UNION { [1..n -> ScopeStatements] : n \in 0..MaxStmts } }

\* a first and a second top-level declaration of f, each a prototype or a
\* definition, told apart by their return types and parameter lists:
\*   int f() | int f(){}    then    char* f(int a) | char* f(int a){}
\* alone, or with void v(){} between them
DuplicatePrograms ==
    { Program(<<Function("TYPE_INT", <<"f">>, <<>>, first)>> \o between \o
              <<Function("TYPE_CHAR_PTR", <<"f">>,
                         <<ast_create_parameter("TYPE_INT", <<"a">>)>>, second)>>) :
        first \in {NULLNODE, Compound(<<>>)},
        second \in {NULLNODE, Compound(<<>>)},
        between \in {<<>>, <<Function("TYPE_VOID", <<"v">>, <<>>, Compound(<<>>))>>} }

\* a return statement, with each kind of value or none, in a function of
\* each return type, directly in the body or inside an if:
\*   char c; void v(){} T f(){ return [e]; }
\*   char c; void v(){} T f(){ if (1) return [e]; }
ReturnPrograms ==
    { Program(<<Variable("TYPE_CHAR", "c"),
                Function("TYPE_VOID", <<"v">>, <<>>, Compound(<<>>)),
                Function(type, <<"f">>, <<>>,
                         Compound(<<IF nested
                                    THEN ast_create_if_stmt(One, ast_create_return_stmt(value),
                                                            NULLNODE)
                                    ELSE ast_create_return_stmt(value)>>))>>) :
        type \in DataTypes,
        value \in {NULLNODE} \cup { Operand(t) : t \in DataTypes },
        nested \in BOOLEAN }

\* programs for the remaining paths of the analyzer:
\*   int f(); int f(){}              a function declared twice
\*   void f(int a, int a){ return; }  a parameter declared twice
\*   int c; int c; int f(){ return; } a variable declared twice, a missing return value
\*   int f(){ for(;;) -1; if(!"s") ; }  a for without clauses, unary operators
\*   int f(){ while(1)                a while whose body failed to parse
OtherPrograms ==
    { Program(<<Function("TYPE_INT", <<"f">>, <<>>, NULLNODE),
                Function("TYPE_INT", <<"f">>, <<>>, Compound(<<>>))>>),
      Program(<<Function("TYPE_VOID", <<"f">>,
                         <<ast_create_parameter("TYPE_INT", <<"a">>),
                           ast_create_parameter("TYPE_INT", <<"a">>)>>,
                         Compound(<<ast_create_return_stmt(NULLNODE)>>))>>),
      Program(<<Variable("TYPE_INT", "c"), Variable("TYPE_INT", "c"),
                Function("TYPE_INT", <<"f">>, <<>>,
                         Compound(<<ast_create_return_stmt(NULLNODE)>>))>>),
      Program(<<Function("TYPE_INT", <<"f">>, <<>>,
                  Compound(<<ast_create_for_stmt(NULLNODE, NULLNODE, NULLNODE,
                                 ast_create_expression_stmt(ast_create_unary_op("-", One))),
                             ast_create_if_stmt(
                                 ast_create_unary_op("!", ast_create_string(<<"s">>)),
                                 ast_create_expression_stmt(NULLNODE), NULLNODE)>>))>>),
      Program(<<Function("TYPE_INT", <<"f">>, <<>>,
                  Compound(<<ast_create_while_stmt(One, NULLNODE)>>))>>) }

SemPrograms ==
    BinaryPrograms \cup CallPrograms \cup ScopePrograms \cup DuplicatePrograms
        \cup ReturnPrograms \cup OtherPrograms

\* the state after semantic_create, at the call semantic_analyze(analyzer, ast)
InitSem ==
    /\ source = <<>> /\ lexer = Idle /\ returned = Idle /\ last_call = "idle" /\ calls = 0
    /\ parser = Idle /\ stack = <<>> /\ control = Idle
    /\ ast \in SemPrograms
    /\ analyzer = semantic_create
    /\ sem_stack = <<[fn |-> "semantic_analyze_program", stage |-> "first_pass",
                      i |-> 1, success |-> 1]>>
    /\ sem_control = [op |-> "program"]
    /\ codegen = Idle /\ cpu = Idle /\ driver = Idle

SemApply(cfg) ==
    /\ analyzer' = cfg.analyzer
    /\ sem_stack' = cfg.stack
    /\ sem_control' = cfg.control
    /\ UNCHANGED <<lexVars, parVars, ast, genVars>>

\* the statement called by the function on top of the stack returned to it at `stage`
SemReturned(fn, stage) ==
    /\ sem_control.op = "returned"
    /\ sem_stack # <<>>
    /\ Head(sem_stack).fn = fn
    /\ Head(sem_stack).stage = stage

\* the frame on top with its success flag cleared if the callee returned 0
Merged == [Head(sem_stack) EXCEPT !.success = IF sem_control.value = 0 THEN 0 ELSE @]

\* semantic_analyze_program, first pass: one iteration of the loop, or its end
DeclareFunctionsLoop ==
    /\ sem_control.op = "program"
    /\ Head(sem_stack).stage = "first_pass"
    /\ LET top == Head(sem_stack) IN
       IF top.i > Len(ast.declarations)
       THEN SemApply(SemConfig(analyzer,
                               <<[top EXCEPT !.stage = "second_pass", !.i = 1]>>,
                               sem_control))
       ELSE LET d == declare_function(analyzer, ast.declarations[top.i], top.success)
            IN  SemApply(SemConfig(d.analyzer,
                                   <<[top EXCEPT !.i = @ + 1, !.success = d.value]>>,
                                   sem_control))

\* semantic_analyze_program, second pass: the head of the loop, up to the
\* return of semantic_analyze or into the declaration analysed next
AnalyzeProgramLoop ==
    /\ sem_control.op = "program"
    /\ Head(sem_stack).stage = "second_pass"
    /\ LET top == Head(sem_stack) IN
       IF top.i > Len(ast.declarations)
       THEN SemApply(SemConfig(analyzer, <<>>, [op |-> "done", value |-> top.success]))
       ELSE LET decl == ast.declarations[top.i] IN
            IF decl.type = "AST_FUNCTION_DECL"
            THEN SemApply(EnterFunctionDecl(analyzer, sem_stack, decl, <<top.i>>))
            ELSE IF decl.type = "AST_VARIABLE_DECL"
            THEN LET r == semantic_analyze_variable_decl(analyzer, decl, <<top.i>>)
                 IN  SemApply(SemReturn(r.analyzer, sem_stack, r.value))
            ELSE SemApply(SemReturn(analyzer, sem_stack, 1))

\* semantic_analyze_program, second pass: a declaration was analysed
ProgramDeclarationAnalyzed ==
    /\ SemReturned("semantic_analyze_program", "second_pass")
    /\ SemApply(SemConfig(analyzer, <<[Merged EXCEPT !.i = @ + 1]>>, [op |-> "program"]))

\* semantic_analyze_statement is called
AnalyzeStatement ==
    /\ sem_control.op = "statement"
    /\ SemApply(semantic_analyze_statement(analyzer, sem_stack,
                                           sem_control.node, sem_control.path))

\* semantic_analyze_compound_stmt: the head of the loop, up to the return
\* or to the call for the next statement
AnalyzeCompoundLoop ==
    /\ sem_control.op = "compound"
    /\ LET top == Head(sem_stack) IN
       IF top.i > Len(top.node.statements)
       THEN SemApply(SemReturn(semantic_pop_scope(analyzer), Tail(sem_stack), top.success))
       ELSE SemApply(SemConfig(analyzer, sem_stack,
                               [op |-> "statement", node |-> top.node.statements[top.i],
                                path |-> top.path \o <<top.i>>]))

\* semantic_analyze_compound_stmt: a statement of the block was analysed
CompoundStatementAnalyzed ==
    /\ SemReturned("semantic_analyze_compound_stmt", "loop")
    /\ SemApply(SemConfig(analyzer, <<[Merged EXCEPT !.i = @ + 1]>> \o Tail(sem_stack),
                          [op |-> "compound"]))

\* semantic_analyze_function_decl after its body: pop the function scope,
\* clear the function context
FunctionBodyAnalyzed ==
    /\ SemReturned("semantic_analyze_function_decl", "body")
    /\ SemApply(SemReturn([semantic_pop_scope(analyzer)
                               EXCEPT !.current_function_return_type = "TYPE_VOID",
                                      !.current_function_name = NULL],
                          Tail(sem_stack), Merged.success))

\* semantic_analyze_if_stmt after the then branch
IfThenAnalyzed ==
    /\ SemReturned("semantic_analyze_if_stmt", "then")
    /\ LET top == Merged IN
       IF top.node.else_stmt # NULLNODE
       THEN SemApply(SemCallStatement(analyzer, [top EXCEPT !.stage = "else"],
                                      Tail(sem_stack), top.node.else_stmt,
                                      top.path \o <<2>>))
       ELSE SemApply(SemReturn(analyzer, Tail(sem_stack), top.success))

\* semantic_analyze_if_stmt after the else branch
IfElseAnalyzed ==
    /\ SemReturned("semantic_analyze_if_stmt", "else")
    /\ SemApply(SemReturn(analyzer, Tail(sem_stack), Merged.success))

\* semantic_analyze_while_stmt after its body
WhileBodyAnalyzed ==
    /\ SemReturned("semantic_analyze_while_stmt", "body")
    /\ SemApply(SemReturn(analyzer, Tail(sem_stack), Merged.success))

\* semantic_analyze_for_stmt after its init statement
ForInitAnalyzed ==
    /\ SemReturned("semantic_analyze_for_stmt", "init")
    /\ LET top == Merged IN
       SemApply(ForRest(analyzer, Tail(sem_stack), top.node, top.path, top.success))

\* a variant that leaves the scope of the loop on the chain
ForBodyAnalyzed_unpopped ==
    /\ SemReturned("semantic_analyze_for_stmt", "body")
    /\ SemApply(SemReturn(analyzer, Tail(sem_stack), Merged.success))

\* semantic_analyze_for_stmt after its body: pop the scope of the loop
ForBodyAnalyzed ==
    /\ SemReturned("semantic_analyze_for_stmt", "body")
    /\ SemApply(SemReturn(semantic_pop_scope(analyzer), Tail(sem_stack), Merged.success))

NextSem ==
    \/ DeclareFunctionsLoop
    \/ AnalyzeProgramLoop
    \/ ProgramDeclarationAnalyzed
    \/ AnalyzeStatement
    \/ AnalyzeCompoundLoop
    \/ CompoundStatementAnalyzed
    \/ FunctionBodyAnalyzed
    \/ IfThenAnalyzed
    \/ IfElseAnalyzed
    \/ WhileBodyAnalyzed
    \/ ForInitAnalyzed
    \/ ForBodyAnalyzed

SpecSem == InitSem /\ [][NextSem]_vars

-----------------------------------------------------------------------------
(* Properties of the semantic analyzer                                     *)

Analyzing == sem_control.op # "idle"

Log == analyzer.log

IsPrefix(p, q) == Len(p) <= Len(q) /\ SubSeq(q, 1, Len(p)) = p

\* the declarations of name made before entry k of the history in a scope
\* whose construct encloses the place `at`
Visible(k, name, at) ==
    { j \in 1..(k - 1) : /\ Log[j].ev = "declare"
                         /\ Log[j].symbol.name = name
                         /\ IsPrefix(Log[j].path, at) }

\* of those, the one made in the innermost scope
Innermost(k, name, at) ==
    CHOOSE j \in Visible(k, name, at) :
        \A j2 \in Visible(k, name, at) : Len(Log[j2].path) <= Len(Log[j].path)

\* C8: scoping is lexical.  Every lookup of a name returns the symbol that
\* the innermost scope enclosing the place of the lookup declared for the
\* name before the lookup, and NULL if no enclosing scope declared it: so
\* inside an inner scope, after the inner declaration of x, a lookup returns
\* the inner symbol, and after the inner scope was popped it returns the
\* outer symbol again.
C8_ScopeShadowing ==
    Analyzing =>
        \A k \in 1..Len(Log) :
            Log[k].ev = "lookup" =>
                IF Visible(k, Log[k].name, Log[k].at) = {}
                THEN Log[k].symbol = NULLSYM
                ELSE Log[k].symbol = Log[Innermost(k, Log[k].name, Log[k].at)].symbol

\* x was declared in an outer and then in a nested scope, a lookup inside the
\* nested scope returned the inner symbol, and a lookup after the nested
\* scope was popped returned the outer one
C8_Witness ==
    /\ Analyzing
    /\ \E i, j, k, l \in 1..Len(Log) :
        /\ i < j /\ j < k /\ k < l
        /\ Log[i].ev = "declare" /\ Log[j].ev = "declare"
        /\ Log[i].symbol.name = Log[j].symbol.name
        /\ IsPrefix(Log[i].path, Log[j].path) /\ Log[i].path # Log[j].path
        /\ Log[k].ev = "lookup" /\ Log[k].symbol = Log[j].symbol
        /\ IsPrefix(Log[j].path, Log[k].at)
        /\ Log[l].ev = "lookup" /\ Log[l].symbol = Log[i].symbol
        /\ ~IsPrefix(Log[j].path, Log[l].at)

\* the condition of the rule table for oper on operands of types left and right
RuleHolds(oper, left, right) ==
    IF oper \in {"=", "==", "!=", "<", "<=", ">", ">="}
    THEN left = right
    ELSE left \in {"TYPE_INT", "TYPE_CHAR"} /\ right \in {"TYPE_INT", "TYPE_CHAR"}

\* the binary operation of history entry e appended a 'Cannot apply' error
CannotApplyReported(e) ==
    /\ e.returned = e.operands_done + 1
    /\ analyzer.errors[e.returned].message.format =
           "Cannot apply oper '%s' to types '%s' and '%s'"

\* C9: for every binary operation analysed, on operands of types L and R, a
\* 'Cannot apply' error is reported exactly when the rule-table condition
\* fails, and when it holds the result type is L for assignment and INT for
\* every other operator.
C9_BinaryRuleTable ==
    Analyzing =>
        \A k \in 1..Len(Log) :
            Log[k].ev = "binary_op" =>
                LET e == Log[k] IN
                /\ CannotApplyReported(e) <=> ~RuleHolds(e.oper, e.left_type, e.right_type)
                /\ RuleHolds(e.oper, e.left_type, e.right_type) =>
                       e.type = IF e.oper = "=" THEN e.left_type ELSE "TYPE_INT"

\* the call of history entry e resolved, by the lexical lookup, to a FUNCTION symbol
Resolves(e) == e.symbol # NULLSYM /\ e.symbol.type = "SYMBOL_FUNCTION"

\* it has as many arguments as the function has parameters
CountMatches(e) == Len(e.arguments) = e.symbol.function_info.parameter_count

\* the arguments that have a corresponding parameter of another type
WronglyTyped(e) ==
    { i \in 1..Len(e.arguments) :
        /\ i <= e.symbol.function_info.parameter_count
        /\ e.argument_types[i] # e.symbol.function_info.parameter_types[i] }

\* the call is legal: a function, the right count, every argument of its parameter's type
Legal(e) == Resolves(e) /\ CountMatches(e) /\ WronglyTyped(e) = {}

\* the errors appended while the call of entry e was analysed
CallErrors(e) == { analyzer.errors[n].message : n \in (e.entered + 1)..e.returned }

\* how many of them the call's own checks appended, the rest being those of
\* the analyses of its arguments
OwnErrors(e) == e.returned - e.entered - e.inner

Reported(e, format, args) == Format(format, args) \in CallErrors(e)

ArgumentError(e, i) ==
    Reported(e, "Argument %zu to function '%s' has type '%s', expected '%s'",
             <<i, e.name, data_type_to_string(e.argument_types[i]),
               data_type_to_string(e.symbol.function_info.parameter_types[i])>>)

\* a missing symbol, a non-function symbol and a wrong argument count each
\* append their error, and a call that resolves has the function's return type
CallFailuresReported(e) ==
    /\ e.symbol = NULLSYM => Reported(e, "Undefined function '%s'", <<e.name>>)
    /\ (e.symbol # NULLSYM /\ ~Resolves(e)) =>
           Reported(e, "'%s' is not a function", <<e.name>>)
    /\ (Resolves(e) /\ ~CountMatches(e)) =>
           Reported(e, "Function '%s' expects %zu arguments, got %zu",
                    <<e.name, e.symbol.function_info.parameter_count, Len(e.arguments)>>)
    /\ Resolves(e) => e.type = e.symbol.data_type

\* C10 as stated: a call is analysed without any error exactly when it is
\* legal; a missing symbol, a non-function symbol, a wrong argument count
\* and each wrongly typed argument append an error; a call that resolves to
\* a function has the function's return type.
C10_CallRuleAsStated ==
    Analyzing =>
        \A k \in 1..Len(Log) :
            Log[k].ev = "call" =>
                LET e == Log[k] IN
                /\ e.returned = e.entered <=> Legal(e)
                /\ CallFailuresReported(e)
                /\ Resolves(e) => \A i \in WronglyTyped(e) : ArgumentError(e, i)

\* C10: the checks of the call itself append no error exactly when the call
\* is legal (errors found inside an argument are the argument's); a missing
\* symbol, a non-function symbol and a wrong argument count each append one
\* error and end the checks, so that the arguments of a call with a wrong
\* count are not analysed; with the right count each wrongly typed argument
\* appends one error; a call that resolves to a function has the function's
\* return type.
C10_CallRule ==
    Analyzing =>
        \A k \in 1..Len(Log) :
            Log[k].ev = "call" =>
                LET e == Log[k] IN
                /\ OwnErrors(e) = 0 <=> Legal(e)
                /\ CallFailuresReported(e)
                /\ (~Resolves(e) \/ ~CountMatches(e)) =>
                       e.returned = e.entered + 1 /\ e.inner = 0
                /\ (Resolves(e) /\ CountMatches(e)) =>
                       /\ \A i \in WronglyTyped(e) : ArgumentError(e, i)
                       /\ OwnErrors(e) = Cardinality(WronglyTyped(e))

\* a call with the right count was analysed that has a wrongly typed
\* argument and an argument with an error of its own
C10_Witness ==
    /\ Analyzing
    /\ \E k \in 1..Len(Log) :
        /\ Log[k].ev = "call"
        /\ Resolves(Log[k]) /\ CountMatches(Log[k])
        /\ 1 \in WronglyTyped(Log[k])
        /\ Log[k].inner = 1
        /\ OwnErrors(Log[k]) = Cardinality(WronglyTyped(Log[k]))

\* the top-level function declarations of the program that have the name of declaration i
SameName(i) ==
    { j \in 1..Len(ast.declarations) :
        /\ ast.declarations[j].type = "AST_FUNCTION_DECL"
        /\ ast.declarations[j].name = ast.declarations[i].name }

\* the symbol the first pass makes for the function declaration decl
FunctionSymbolOf(decl, symbol) ==
    /\ symbol.type = "SYMBOL_FUNCTION"
    /\ symbol.data_type = decl.return_type
    /\ symbol.function_info.parameter_count = Len(decl.parameters)
    /\ symbol.function_info.defined = (IF decl.body # NULLNODE THEN 1 ELSE 0)

\* the analysis is over: semantic_analyze returned
AnalysisDone == sem_control.op = "done"

\* C11: when semantic_analyze has returned, for every top-level function
\* name declared more than once the error list holds "Function 'X' already
\* declared", the analysis failed with errors, and the global scope holds
\* exactly one symbol of that name, the one of the first declaration.
C11_FunctionRedeclared ==
    AnalysisDone =>
        \A i \in 1..Len(ast.declarations) :
            (ast.declarations[i].type = "AST_FUNCTION_DECL"
                 /\ Cardinality(SameName(i)) > 1) =>
                LET name == ast.declarations[i].name
                    first == CHOOSE j \in SameName(i) : \A j2 \in SameName(i) : j <= j2
                    global == analyzer.scopes[Len(analyzer.scopes)].symbols
                IN  /\ \E n \in 1..Len(analyzer.errors) :
                           analyzer.errors[n].message =
                               Format("Function '%s' already declared", <<name>>)
                    /\ semantic_has_errors(analyzer)
                    /\ sem_control.value = 0
                    /\ Cardinality({ n \in 1..Len(global) : global[n].name = name }) = 1
                    /\ FunctionSymbolOf(ast.declarations[first],
                                        symbol_table_lookup(global, name))

\* a prototype of f followed, after another function, by a definition of f was analysed
C11_Witness ==
    /\ AnalysisDone
    /\ Len(ast.declarations) = 3
    /\ SameName(1) = {1, 3}
    /\ ast.declarations[1].body = NULLNODE
    /\ ast.declarations[3].body # NULLNODE
    /\ Len(analyzer.errors) = 1

\* the return statements inside a statement
RECURSIVE ReturnStmts(_)
ReturnStmts(node) ==
    IF node = NULLNODE
    THEN {}
    ELSE CASE node.type = "AST_RETURN_STMT" -> {node}
           [] node.type = "AST_COMPOUND_STMT" ->
                UNION { ReturnStmts(node.statements[i]) : i \in 1..Len(node.statements) }
           [] node.type = "AST_IF_STMT" ->
                ReturnStmts(node.then_stmt) \cup ReturnStmts(node.else_stmt)
           [] node.type = "AST_WHILE_STMT" -> ReturnStmts(node.body)
           [] node.type = "AST_FOR_STMT" -> ReturnStmts(node.init) \cup ReturnStmts(node.body)
           [] OTHER -> {}

\* C19: when the analysis has completed without errors, every return
\* statement of the program has no value if and only if the function around
\* it returns VOID.
C19_ReturnValueIffNonVoid ==
    (AnalysisDone /\ ~semantic_has_errors(analyzer)) =>
        \A i \in 1..Len(ast.declarations) :
            ast.declarations[i].type = "AST_FUNCTION_DECL" =>
                \A r \in ReturnStmts(ast.declarations[i].body) :
                    r.value = NULLNODE <=> ast.declarations[i].return_type = "TYPE_VOID"

\* the function context is Uninitialized: no name, return type VOID
Uninitialized ==
    /\ analyzer.current_function_name = NULL
    /\ analyzer.current_function_return_type = "TYPE_VOID"

\* a function declaration with a body is being analysed
InFunctionBody ==
    \E n \in 1..Len(sem_stack) : sem_stack[n].fn = "semantic_analyze_function_decl"

\* the function context is Active for the function whose body is being analysed
Active ==
    \E i \in 1..Len(ast.declarations) :
        /\ Head(SelectSeq(sem_stack,
                LAMBDA f : f.fn = "semantic_analyze_program")).i = i
        /\ ast.declarations[i].type = "AST_FUNCTION_DECL"
        /\ analyzer.current_function_name = ast.declarations[i].name
        /\ analyzer.current_function_return_type = ast.declarations[i].return_type

\* C20: the function context is Active, with the name and the return type
\* of the function, while a function declaration with a body is being
\* analysed, and Uninitialized at all other times: after a prototype was
\* processed and when semantic_analyze has returned in particular.
C20_FunctionContext ==
    Analyzing => IF InFunctionBody THEN Active ELSE Uninitialized

-----------------------------------------------------------------------------
(* The code generator (src/codegen.c)                                      *)
(*                                                                         *)
(* The output file is the sequence codegen.output of the pieces written to *)
(* it, each the format string of the fprintf that wrote it with the values *)
(* printed into it.  Names and labels are sequences of characters.         *)
(* Registers are the numbers of register_t.  Two fields are history, not   *)
(* program state: codegen.boundaries, the registers in use whenever the    *)
(* lowering of a statement began or ended, and codegen.accesses, the       *)
(* variables added to a function context, loaded and stored.               *)

MAX_REGISTERS == 8

REG_NONE == -1

REG_RAX == 0

\* register_names[reg][0..2]: the names of the 64-bit, 32-bit and 8-bit parts
register_names ==
    << <<"rax", "eax", "al">>, <<"rbx", "ebx", "bl">>, <<"rcx", "ecx", "cl">>,
       <<"rdx", "edx", "dl">>, <<"rsi", "esi", "sil">>, <<"rdi", "edi", "dil">>,
       <<"r8", "r8d", "r8b">>, <<"r9", "r9d", "r9b">> >>

NULLCTX == [name |-> NULL]

codegen_create ==
    [output |-> <<>>, current_function |-> NULLCTX, string_counter |-> 0,
     label_counter |-> 0, next_temp_register |-> REG_RAX,
     register_used |-> [i \in 0..(MAX_REGISTERS - 1) |-> 0],
     string_literals |-> <<>>, boundaries |-> <<>>, accesses |-> <<>>]

\* fprintf(cg->output, format, ...)
fprintf(cg, format, args) ==
    [cg EXCEPT !.output = Append(@, Format(format, args))]

\* the text of an instruction line: four spaces, the format, a newline
Line(format) == "    " \o format \o "\n"

codegen_emit(cg, format, args) == fprintf(cg, Line(format), args)

codegen_emit_label(cg, label) == fprintf(cg, "%s:\n", <<label>>)

codegen_emit_comment(cg, comment) == fprintf(cg, "    # %s\n", <<comment>>)

\* the register allocated and the code generator after the allocation
codegen_allocate_register(cg) ==
    IF \E i \in 0..(MAX_REGISTERS - 1) : cg.register_used[i] = 0
    THEN LET i == CHOOSE i \in 0..(MAX_REGISTERS - 1) :
                      /\ cg.register_used[i] = 0
                      /\ \A j \in 0..(i - 1) : cg.register_used[j] # 0
         IN  [codegen |-> [cg EXCEPT !.register_used[i] = 1], reg |-> i]
    ELSE [codegen |-> cg, reg |-> REG_RAX]

codegen_free_register(cg, reg) ==
    IF reg >= 0 /\ reg < MAX_REGISTERS
    THEN [cg EXCEPT !.register_used[reg] = 0]
    ELSE cg

codegen_register_name(reg, size) ==
    IF reg < 0 \/ reg >= MAX_REGISTERS
    THEN "INVALID"
    ELSE CASE size = 8 -> register_names[reg + 1][1]
           [] size = 4 -> register_names[reg + 1][2]
           [] size = 1 -> register_names[reg + 1][3]
           [] OTHER -> register_names[reg + 1][1]

codegen_type_size(type) ==
    CASE type = "TYPE_INT" -> 4
      [] type = "TYPE_CHAR" -> 1
      [] type = "TYPE_CHAR_PTR" -> 8
      [] type = "TYPE_VOID" -> 0
      [] OTHER -> 4

codegen_type_suffix(type) ==
    CASE type = "TYPE_INT" -> "l"
      [] type = "TYPE_CHAR" -> "b"
      [] type = "TYPE_CHAR_PTR" -> "q"
      [] OTHER -> "l"

function_context_create(name) ==
    [name |-> name, stack_size |-> 0, variables |-> <<>>, label_counter |-> 0]

\* (size + 7) & ~7
AlignTo8(size) == ((size + 7) \div 8) * 8

\* the context with the variable added, and the offset returned
function_context_add_variable(context, name, type) ==
    IF context = NULLCTX
    THEN [context |-> context, offset |-> -1]
    ELSE LET stack_size == context.stack_size + AlignTo8(codegen_type_size(type))
             var == [name |-> name, type |-> type, offset |-> -stack_size]
         IN  [context |-> [context EXCEPT !.variables = Append(@, var),
                                          !.stack_size = stack_size],
              offset |-> var.offset]

NULLVAR == [name |-> NULL]

function_context_find_variable(context, name) ==
    IF context # NULLCTX /\ \E i \in 1..Len(context.variables) : context.variables[i].name = name
    THEN context.variables[CHOOSE i \in 1..Len(context.variables) :
                               /\ context.variables[i].name = name
                               /\ \A j \in 1..(i - 1) : context.variables[j].name # name]
    ELSE NULLVAR

Digit == <<"0", "1", "2", "3", "4", "5", "6", "7", "8", "9">>

\* the characters that %d prints for a number that is not negative
RECURSIVE sprintf_d(_)
sprintf_d(n) ==
    IF n < 10 THEN <<Digit[n + 1]>> ELSE sprintf_d(n \div 10) \o <<Digit[(n % 10) + 1]>>

\* a variant that does not count the labels it makes
codegen_generate_label_uncounted(cg, prefix) ==
    [codegen |-> cg, label |-> <<".", "L">> \o prefix \o sprintf_d(cg.label_counter)]

\* snprintf(label, 32, ".L%s%d", prefix, codegen->label_counter++): the
\* label made and the code generator after it
codegen_generate_label(cg, prefix) ==
    [codegen |-> [cg EXCEPT !.label_counter = @ + 1],
     label |-> <<".", "L">> \o prefix \o sprintf_d(cg.label_counter)]

\* snprintf(label, 32, ".LC%d", codegen->string_counter++)
codegen_generate_string_label(cg) ==
    [codegen |-> [cg EXCEPT !.string_counter = @ + 1],
     label |-> <<".", "L", "C">> \o sprintf_d(cg.string_counter)]

codegen_add_string_literal(cg, value) ==
    IF \E i \in 1..Len(cg.string_literals) : cg.string_literals[i].value = value
    THEN [codegen |-> cg,
          label |-> cg.string_literals[
                        CHOOSE i \in 1..Len(cg.string_literals) :
                            cg.string_literals[i].value = value].label]
    ELSE LET l == codegen_generate_string_label(cg)
         IN  [codegen |-> [l.codegen EXCEPT !.string_literals =
                               Append(@, [value |-> value, label |-> l.label])],
              label |-> l.label]

-----------------------------------------------------------------------------
\* what a function that generates an expression gives back: the register
\* that holds the value, and the code generator after it
G(cg, reg) == [codegen |-> cg, reg |-> reg]

\* an instruction that names the register just allocated, in 64 bits, last
\* rest, evaluated once first has its value: the statements of the C code
\* run one after the other
Sequenced(first, rest) == IF first = first THEN rest ELSE rest

emit_to_register(a, format, args) ==
    G(codegen_emit(a.codegen, format, args \o <<codegen_register_name(a.reg, 8)>>), a.reg)

codegen_number(cg, node) ==
    emit_to_register(codegen_allocate_register(cg), "movq $%d, %%%s", <<node.value>>)

\* codegen_string once the literal has its label
string_labelled(l) ==
    emit_to_register(codegen_allocate_register(l.codegen), "movq $%s, %%%s", <<l.label>>)

codegen_string(cg, node) == string_labelled(codegen_add_string_literal(cg, node.value))

\* the code generator with one more entry in its history: the variable is
\* added, loaded or stored, after so many statement boundaries
accessed(cg, kind, var) ==
    [cg EXCEPT !.accesses = Append(@, [kind |-> kind, name |-> var.name,
                                       offset |-> var.offset,
                                       at |-> Len(cg.boundaries)])]

\* codegen_identifier once the variable is found and the register allocated
identifier_load(a, var) ==
    G(codegen_emit(accessed(a.codegen, "load", var), "mov%s %d(%%rbp), %%%s",
                   <<codegen_type_suffix(var.type), var.offset,
                     codegen_register_name(a.reg, codegen_type_size(var.type))>>),
      a.reg)

\* codegen_identifier once the variable was looked up
identifier_found(cg, var) ==
    IF cg.current_function = NULLCTX \/ var = NULLVAR
    THEN G(cg, REG_NONE)
    ELSE identifier_load(codegen_allocate_register(cg), var)

codegen_identifier(cg, node) ==
    identifier_found(cg, function_context_find_variable(cg.current_function, node.name))

\* codegen_function_call after the call instruction
call_result(a) ==
    IF a.reg # REG_RAX
    THEN G(codegen_emit(a.codegen, "movq %%rax, %%%s",
                        <<codegen_register_name(a.reg, 8)>>), a.reg)
    ELSE a

\* the arguments of the call are not generated
codegen_function_call(cg, node) ==
    call_result(codegen_allocate_register(codegen_emit(cg, "call %s", <<node.name>>)))

\* cmpq, a set instruction, movzbl
compare_instructions(cg, set, right8, left8, left4, left1) ==
    codegen_emit(codegen_emit(codegen_emit(cg,
        "cmpq %%%s, %%%s", <<right8, left8>>),
        set, <<left1>>),
        "movzbl %%%s, %%%s", <<left1, left4>>)

\* the instructions of a binary operator other than "=" on two registers
binary_op_instructions(cg, op, left_reg, right_reg) ==
    CASE op = "+" ->
            codegen_emit(cg, "addq %%%s, %%%s",
                <<codegen_register_name(right_reg, 8), codegen_register_name(left_reg, 8)>>)
      [] op = "-" ->
            codegen_emit(cg, "subq %%%s, %%%s",
                <<codegen_register_name(right_reg, 8), codegen_register_name(left_reg, 8)>>)
      [] op = "*" ->
            codegen_emit(cg, "imulq %%%s, %%%s",
                <<codegen_register_name(right_reg, 8), codegen_register_name(left_reg, 8)>>)
      [] op = "<" ->
            compare_instructions(cg, "setl %%%s",
                codegen_register_name(right_reg, 8), codegen_register_name(left_reg, 8),
                codegen_register_name(left_reg, 4), codegen_register_name(left_reg, 1))
      [] op = "==" ->
            compare_instructions(cg, "sete %%%s",
                codegen_register_name(right_reg, 8), codegen_register_name(left_reg, 8),
                codegen_register_name(left_reg, 4), codegen_register_name(left_reg, 1))
      [] OTHER -> cg

\* the store of an assignment or of an initializer into the variable
store_variable(cg, var, reg) ==
    IF var = NULLVAR
    THEN cg
    ELSE codegen_emit(accessed(cg, "store", var), "mov%s %%%s, %d(%%rbp)",
                      <<codegen_type_suffix(var.type),
                        codegen_register_name(reg, codegen_type_size(var.type)),
                        var.offset>>)

\* the store into the variable of the name in the current function
store_named(cg, name, reg) ==
    store_variable(cg, function_context_find_variable(cg.current_function, name), reg)

RECURSIVE codegen_expression(_, _)

\* codegen_binary_op for "=" after the right side: the register of the
\* right side is the result
assignment_stored(right, left) ==
    IF left.type = "AST_IDENTIFIER"
    THEN G(store_named(right.codegen, left.name, right.reg), right.reg)
    ELSE right

\* a variant that leaves the right register in use
binary_op_done_kept(left_reg, right, oper) ==
    Sequenced(<<left_reg, right>>,
        G(binary_op_instructions(right.codegen, oper, left_reg, right.reg), left_reg))

\* codegen_binary_op after both sides: the right register is freed, the
\* left one is the result
binary_op_done(left_reg, right, oper) ==
    Sequenced(<<left_reg, right>>,
        G(codegen_free_register(
              binary_op_instructions(right.codegen, oper, left_reg, right.reg), right.reg),
          left_reg))

\* codegen_binary_op after the left side
binary_op_right(left, node) ==
    binary_op_done(left.reg, codegen_expression(left.codegen, node.right), node.oper)

codegen_binary_op(cg, node) ==
    IF node.oper = "="
    THEN assignment_stored(codegen_expression(cg, node.right), node.left)
    ELSE binary_op_right(codegen_expression(cg, node.left), node)

\* testq, sete, movzbl
not_instructions(cg, name8, name4, name1) ==
    codegen_emit(codegen_emit(codegen_emit(cg,
        "testq %%%s, %%%s", <<name8, name8>>),
        "sete %%%s", <<name1>>),
        "movzbl %%%s, %%%s", <<name1, name4>>)

\* codegen_unary_op after the operand
unary_op_done(operand, oper) ==
    CASE oper = "-" ->
            G(codegen_emit(operand.codegen, "negq %%%s",
                           <<codegen_register_name(operand.reg, 8)>>), operand.reg)
      [] oper = "!" ->
            G(not_instructions(operand.codegen, codegen_register_name(operand.reg, 8),
                               codegen_register_name(operand.reg, 4),
                               codegen_register_name(operand.reg, 1)), operand.reg)
      [] OTHER -> operand

codegen_unary_op(cg, node) == unary_op_done(codegen_expression(cg, node.operand), node.oper)

codegen_expression(cg, node) ==
    CASE node = NULLNODE -> G(cg, REG_NONE)
      [] node.type = "AST_BINARY_OP" -> codegen_binary_op(cg, node)
      [] node.type = "AST_UNARY_OP" -> codegen_unary_op(cg, node)
      [] node.type = "AST_FUNCTION_CALL" -> codegen_function_call(cg, node)
      [] node.type = "AST_IDENTIFIER" -> codegen_identifier(cg, node)
      [] node.type = "AST_NUMBER" -> codegen_number(cg, node)
      [] node.type = "AST_STRING" -> codegen_string(cg, node)
      [] OTHER -> G(cg, REG_NONE)

\* the register of an expression is freed
freed(e) == codegen_free_register(e.codegen, e.reg)

\* the value of a condition is tested and its register is freed
tested(cond) ==
    codegen_free_register(
        codegen_emit(cond.codegen, "testq %%%s, %%%s",
                     <<codegen_register_name(cond.reg, 8), codegen_register_name(cond.reg, 8)>>),
        cond.reg)

\* the condition of an if, a while or a for
condition_test(cg, condition) == tested(codegen_expression(cg, condition))

\* codegen_return_stmt after the value
return_value(result) ==
    codegen_free_register(
        IF result.reg # REG_RAX
        THEN codegen_emit(result.codegen, "movq %%%s, %%rax",
                          <<codegen_register_name(result.reg, 8)>>)
        ELSE result.codegen,
        result.reg)

codegen_return_stmt(cg, node) ==
    codegen_emit(IF node.value # NULLNODE
                 THEN return_value(codegen_expression(cg, node.value))
                 ELSE cg,
                 "jmp .Lreturn", <<>>)

codegen_expression_stmt(cg, node) ==
    IF node.expression # NULLNODE
    THEN freed(codegen_expression(cg, node.expression))
    ELSE cg

\* codegen_variable_decl after the initializer
initializer_stored(init, name) ==
    codegen_free_register(store_named(init.codegen, name, init.reg), init.reg)

\* codegen_variable_decl after the variable was added
variable_added(cg, node) ==
    IF node.initializer # NULLNODE
    THEN initializer_stored(codegen_expression(cg, node.initializer), node.name)
    ELSE cg

\* the code generator once the variables from the n-th on were added to the
\* context of the current function
RECURSIVE added(_, _)
added(cg, n) ==
    IF n > Len(cg.current_function.variables)
    THEN cg
    ELSE added(accessed(cg, "add", cg.current_function.variables[n]), n + 1)

codegen_variable_decl(cg, node) ==
    IF cg.current_function = NULLCTX
    THEN cg
    ELSE variable_added(
             added([cg EXCEPT !.current_function =
                        function_context_add_variable(@, node.name, node.var_type).context],
                   Len(cg.current_function.variables) + 1),
             node)

RECURSIVE codegen_statement(_, _)

RECURSIVE codegen_statements(_, _, _)
\* the loop of codegen_compound_stmt from statement i on
codegen_statements(cg, statements, i) ==
    Sequenced(cg,
        IF i > Len(statements)
        THEN cg
        ELSE codegen_statements(codegen_statement(cg, statements[i]), statements, i + 1))

codegen_compound_stmt(cg, node) ==
    IF node = NULLNODE \/ node.type # "AST_COMPOUND_STMT"
    THEN cg
    ELSE codegen_statements(cg, node.statements, 1)

\* codegen_if_stmt after the then branch
if_then_done(cg, node, else_label, end_label) ==
    Sequenced(cg,
        codegen_emit_label(
            IF node.else_stmt # NULLNODE
            THEN codegen_statement(
                     codegen_emit_label(codegen_emit(cg, "jmp %s", <<end_label>>), else_label),
                     node.else_stmt)
            ELSE cg,
            end_label))

\* codegen_if_stmt after the condition
if_condition_done(cg, node, else_label, end_label) ==
    Sequenced(cg,
        if_then_done(
            codegen_statement(
                IF node.else_stmt # NULLNODE
                THEN codegen_emit(cg, "jz %s", <<else_label>>)
                ELSE codegen_emit(cg, "jz %s", <<end_label>>),
                node.then_stmt),
            node, else_label, end_label))

\* codegen_if_stmt after its labels are made
if_labelled(end, node, else_label) ==
    if_condition_done(condition_test(end.codegen, node.condition), node,
                      else_label, end.label)

\* codegen_if_stmt after its first label is made
if_else_labelled(else, node) ==
    if_labelled(codegen_generate_label(else.codegen, <<"e", "n", "d", "i", "f">>),
                node, else.label)

codegen_if_stmt(cg, node) ==
    if_else_labelled(codegen_generate_label(cg, <<"e", "l", "s", "e">>), node)

\* codegen_while_stmt after the condition
while_condition_done(cg, node, loop_label, end_label) ==
    Sequenced(cg,
        codegen_emit_label(
            codegen_emit(codegen_statement(codegen_emit(cg, "jz %s", <<end_label>>), node.body),
                         "jmp %s", <<loop_label>>),
            end_label))

\* codegen_while_stmt after its labels are made
while_labelled(end, node, loop_label) ==
    while_condition_done(
        condition_test(codegen_emit_label(end.codegen, loop_label), node.condition),
        node, loop_label, end.label)

\* codegen_while_stmt after its first label is made
while_loop_labelled(loop, node) ==
    while_labelled(
        codegen_generate_label(loop.codegen, <<"e", "n", "d", "w", "h", "i", "l", "e">>),
        node, loop.label)

codegen_while_stmt(cg, node) ==
    while_loop_labelled(codegen_generate_label(cg, <<"w", "h", "i", "l", "e">>), node)

\* codegen_for_stmt after the body
for_body_done(cg, node, loop_label, update_label, end_label) ==
    Sequenced(cg,
        codegen_emit_label(
            codegen_emit(
                IF node.update # NULLNODE
                THEN freed(codegen_expression(codegen_emit_label(cg, update_label), node.update))
                ELSE codegen_emit_label(cg, update_label),
                "jmp %s", <<loop_label>>),
            end_label))

\* codegen_for_stmt after the init statement
for_init_done(cg, node, loop_label, update_label, end_label) ==
    Sequenced(cg,
        for_body_done(
            codegen_statement(
                IF node.condition # NULLNODE
                THEN codegen_emit(condition_test(codegen_emit_label(cg, loop_label),
                                                 node.condition),
                                  "jz %s", <<end_label>>)
                ELSE codegen_emit_label(cg, loop_label),
                node.body),
            node, loop_label, update_label, end_label))

\* codegen_for_stmt after its labels are made
for_labelled(end, node, loop_label, update_label) ==
    for_init_done(codegen_statement(end.codegen, node.init), node,
                  loop_label, update_label, end.label)

\* codegen_for_stmt after its second label is made
for_update_labelled(update, node, loop_label) ==
    for_labelled(codegen_generate_label(update.codegen, <<"e", "n", "d", "f", "o", "r">>),
                 node, loop_label, update.label)

\* codegen_for_stmt after its first label is made
for_loop_labelled(loop, node) ==
    for_update_labelled(
        codegen_generate_label(loop.codegen,
                               <<"f", "o", "r", "u", "p", "d", "a", "t", "e">>),
        node, loop.label)

codegen_for_stmt(cg, node) ==
    for_loop_labelled(codegen_generate_label(cg, <<"f", "o", "r">>), node)

\* the switch of codegen_statement
statement_switch(cg, node) ==
    CASE node.type = "AST_COMPOUND_STMT" -> codegen_compound_stmt(cg, node)
      [] node.type = "AST_IF_STMT" -> codegen_if_stmt(cg, node)
      [] node.type = "AST_WHILE_STMT" -> codegen_while_stmt(cg, node)
      [] node.type = "AST_FOR_STMT" -> codegen_for_stmt(cg, node)
      [] node.type = "AST_RETURN_STMT" -> codegen_return_stmt(cg, node)
      [] node.type = "AST_EXPRESSION_STMT" -> codegen_expression_stmt(cg, node)
      [] node.type = "AST_VARIABLE_DECL" -> codegen_variable_decl(cg, node)
      [] OTHER -> cg

\* the code generator with one more entry in its history: the lowering of
\* the statement begins or ends with these registers in use
boundary(cg, ev, node) ==
    [cg EXCEPT !.boundaries = Append(@, [ev |-> ev, type |-> node.type,
                                         register_used |-> cg.register_used])]

codegen_statement(cg, node) ==
    IF node = NULLNODE
    THEN cg
    ELSE boundary(statement_switch(boundary(cg, "before", node), node), "after", node)

RECURSIVE add_parameters(_, _, _)
\* the loop of codegen_function_decl over the parameters, from parameter i on
add_parameters(context, parameters, i) ==
    IF i > Len(parameters)
    THEN context
    ELSE add_parameters(
             function_context_add_variable(context, parameters[i].name,
                                           parameters[i].param_type).context,
             parameters, i + 1)

\* (stack_size + 15) & ~15
AlignTo16(stack_size) == ((stack_size + 15) \div 16) * 16

\* the prologue of a function, for the stack size at the time it is emitted
prologue(cg, stack_size) ==
    LET frame == codegen_emit(codegen_emit(cg, "pushq %%rbp", <<>>),
                              "movq %%rsp, %%rbp", <<>>)
    IN  IF stack_size > 0
        THEN codegen_emit(frame, "subq $%d, %%rsp", <<AlignTo16(stack_size)>>)
        ELSE frame

LabelReturn == <<".", "L", "r", "e", "t", "u", "r", "n">>

epilogue(cg, return_type) ==
    LET label == codegen_emit_label(cg, LabelReturn)
        value == IF return_type = "TYPE_VOID"
                 THEN codegen_emit(label, "movq $0, %%rax", <<>>)
                 ELSE label
    IN  fprintf(codegen_emit(codegen_emit(codegen_emit(value,
                    "movq %%rbp, %%rsp", <<>>), "popq %%rbp", <<>>), "ret", <<>>),
                "\n", <<>>)

\* codegen_function_decl, for a function with a body, up to the call of
\* codegen_compound_stmt for the body
function_decl_begin(cg, node) ==
    LET context == add_parameters(function_context_create(node.name),
                                  node.parameters, 1)
        created == added([cg EXCEPT !.current_function = context], 1)
        global == IF node.name = <<"m", "a", "i", "n">>
                  THEN fprintf(created, ".global main\n", <<>>)
                  ELSE created
    IN  prologue(fprintf(global, "%s:\n", <<node.name>>), context.stack_size)

\* codegen_function_decl after the body
function_decl_end(cg, node) ==
    [epilogue(cg, node.return_type) EXCEPT !.current_function = NULLCTX]

\* codegen_program up to the loop that generates the functions
program_header(cg) ==
    LET data == fprintf(codegen_emit_comment(cg, "Generated by TinyC Compiler"),
                        ".section .data\n", <<>>)
        RECURSIVE literals(_, _)
        literals(c, i) ==
            IF i > Len(cg.string_literals)
            THEN c
            ELSE literals(fprintf(fprintf(c, "%s:\n", <<cg.string_literals[i].label>>),
                                  "    .string \"%s\"\n", <<cg.string_literals[i].value>>),
                          i + 1)
    IN  fprintf(IF Len(cg.string_literals) > 0
                THEN fprintf(literals(data, 1), "\n", <<>>)
                ELSE data,
                ".section .text\n", <<>>)

-----------------------------------------------------------------------------

(* A function context under test: function_context_add_variable is called  *)
(* with any names and types                                                *)

\* the most variables added to one function context
MaxVars == 3

VarNames == { <<"a">>, <<"b">> }

InitContext ==
    /\ source = <<>> /\ lexer = Idle /\ returned = Idle /\ last_call = "idle" /\ calls = 0
    /\ parser = Idle /\ stack = <<>> /\ control = Idle
    /\ ast = Idle /\ analyzer = Idle /\ sem_stack = <<>> /\ sem_control = Idle
    /\ codegen = [codegen_create EXCEPT !.current_function = function_context_create(<<"f">>)]
    /\ cpu = Idle
    /\ driver = [op |-> "context"]

AddVariableCall ==
    /\ driver.op = "context"
    /\ Len(codegen.current_function.variables) < MaxVars
    /\ \E name \in VarNames, type \in DataTypes :
           codegen' = [codegen EXCEPT !.current_function =
                           function_context_add_variable(@, name, type).context]
    /\ UNCHANGED <<lexVars, parVars, semVars, cpu, driver>>

NextContext == AddVariableCall

SpecContext == InitContext /\ [][NextContext]_vars

\* C18: in a function context every variable entry has rbp_offset < 0, no
\* two entries share an offset, and stack_size is the sum of the entries'
\* type sizes, each padded to 8 bytes.
C18_StackSlots ==
    driver.op = "context" =>
        LET variables == codegen.current_function.variables
            RECURSIVE Sum(_)
            Sum(n) == IF n = 0 THEN 0
                      ELSE Sum(n - 1) + ((codegen_type_size(variables[n].type) + 7) \div 8) * 8
        IN  /\ \A i \in 1..Len(variables) : variables[i].offset < 0
            /\ \A i, j \in 1..Len(variables) :
                   i # j => variables[i].offset # variables[j].offset
            /\ codegen.current_function.stack_size = Sum(Len(variables))

-----------------------------------------------------------------------------
(* The code generator at work: codegen_generate on programs that the       *)
(* analyzer accepts                                                        *)

Number(value) == ast_create_number(value)

Minus(operand) == ast_create_unary_op("-", operand)

Init_(name, initializer) == ast_create_variable_decl("TYPE_INT", <<name>>, initializer)

Assign(name, value) ==
    ast_create_expression_stmt(ast_create_binary_op("=", Use(name), value))

ReturnStmt(value) == ast_create_return_stmt(value)

\* the operators of the expressions generated
Operators == {"+", "-", "*", "<", "=="}

\* the values of the variable x: 0, 1, 2 and -1
Values == {Number(0), Number(1), Number(2), Minus(Number(1))}

\* int main(){ int x = <value>; return <e>; } with e one of
\*   x    -x    x op k    k op x     for k one of 0, 1, -1
ExpressionPrograms ==
    { Program(<<Main(<<Init_("x", value), ReturnStmt(e)>>)>>) :
        value \in Values,
        e \in {Use("x"), Minus(Use("x"))}
              \cup { ast_create_binary_op(op, Use("x"), k) :
                       op \in Operators, k \in {Number(0), Number(1), Minus(Number(1))} }
              \cup { ast_create_binary_op(op, k, Use("x")) :
                       op \in Operators, k \in {Number(0), Number(1), Minus(Number(1))} } }

\* int main(){ int x = <value>; int y = 0;
\*             if (x + 1) y = 1; else y = 2;
\*             while (x < 1) { x = x + 1; y = y + 2; }
\*             if (y == 1) return x; return y; }
ControlPrograms ==
    { Program(<<Main(<<
          Init_("x", value), Init_("y", Number(0)),
          ast_create_if_stmt(ast_create_binary_op("+", Use("x"), Number(1)),
                             Assign("y", Number(1)), Assign("y", Number(2))),
          ast_create_while_stmt(ast_create_binary_op("<", Use("x"), Number(1)),
              Compound(<<Assign("x", ast_create_binary_op("+", Use("x"), Number(1))),
                         Assign("y", ast_create_binary_op("+", Use("y"), Number(2)))>>)),
          ast_create_if_stmt(ast_create_binary_op("==", Use("y"), Number(1)),
                             ReturnStmt(Use("x")), NULLNODE),
          ReturnStmt(Use("y"))>>)>>) :
        value \in Values }

IntParameter(name) == ast_create_parameter("TYPE_INT", <<name>>)

\* int add(int a, int b){ return a + b; } int main(){ return add(15, 27); }
\* and the same with a prototype of add first and its definition last
CallingPrograms ==
    LET add(body) == Function("TYPE_INT", <<"a", "d", "d">>,
                              <<IntParameter("a"), IntParameter("b")>>, body)
        definition == add(Compound(<<ReturnStmt(ast_create_binary_op("+", Use("a"), Use("b")))>>))
        main == Main(<<ReturnStmt(Call(<<"a", "d", "d">>, <<Number(15), Number(27)>>))>>)
    IN  { Program(<<definition, main>>), Program(<<add(NULLNODE), main, definition>>) }

\* void print(char* s); int main(){ char* s = "s"; print("s"); print("t"); return 0; }
\* and programs with a part of these statements
StringPrograms ==
    LET print == Function("TYPE_VOID", <<"p", "r", "i", "n", "t">>,
                          <<ast_create_parameter("TYPE_CHAR_PTR", <<"s">>)>>, NULLNODE)
        statements ==
            << ast_create_variable_decl("TYPE_CHAR_PTR", <<"s">>, ast_create_string(<<"s">>)),
               ast_create_expression_stmt(Call(<<"p", "r", "i", "n", "t">>,
                                               <<ast_create_string(<<"s">>)>>)),
               ast_create_expression_stmt(Call(<<"p", "r", "i", "n", "t">>,
                                               <<ast_create_string(<<"t">>)>>)) >>
    IN  { Program(<<print, Main(SubSeq(statements, i, j) \o <<ReturnStmt(Number(0))>>)>>) :
            i \in 1..3, j \in 1..3 }

\* the statements of the bodies generated for their labels and variables
BodyStatements ==
    { Variable("TYPE_INT", "x"),
      Variable("TYPE_CHAR", "c"),
      ast_create_if_stmt(One, Compound(<<Variable("TYPE_CHAR_PTR", "p")>>), NULLNODE),
      ast_create_if_stmt(One, ReturnStmt(One), ReturnStmt(One)),
      ast_create_while_stmt(One, ast_create_if_stmt(One, ReturnStmt(One), NULLNODE)),
      ast_create_for_stmt(Init_("i", One), Use("i"), Use("i"), ReturnStmt(One)),
      ast_create_for_stmt(NULLNODE, NULLNODE, NULLNODE, Compound(<<>>)),
      ReturnStmt(One) }

\* int f([int a]){ <statements> } [int g(){ <statement> }]
BodyPrograms ==
    { Program(<<Function("TYPE_INT", <<"f">>, parameters, Compound(body))>> \o second) :
        parameters \in {<<>>, <<IntParameter("a")>>},
        body \in UNION { [1..n -> BodyStatements] : n \in 0..(MaxStmts - 1) },
        second \in {<<>>} \cup
                   { <<Function("TYPE_VOID", <<"g">>, <<>>, Compound(<<s>>))>> :
                       s \in {Variable("TYPE_INT", "x"), ast_create_return_stmt(NULLNODE)} } }

RECURSIVE Nested(_)
\* 1 + (1 + (1 + ... )) with n additions: every left operand holds a
\* register while the operand to its right is evaluated
Nested(n) == IF n = 0 THEN One ELSE ast_create_binary_op("+", One, Nested(n - 1))

\* expressions for the registers: one that needs more registers than there
\* are, sums with the undeclared u, which yields no register, on the left
\* and on the right, both at once, an assignment of u, and u itself
RegisterExpressions ==
    { Nested(MAX_REGISTERS),
      ast_create_binary_op("+", Use("u"), One),
      ast_create_binary_op("+", One, Use("u")),
      ast_create_binary_op("+", ast_create_binary_op("+", Use("u"), One),
                           Nested(MAX_REGISTERS)),
      ast_create_binary_op("=", Use("x"), Use("u")),
      Use("u") }

\* the statements that hold an expression e
RegisterStatements(e) ==
    { Init_("y", e),
      ast_create_expression_stmt(e),
      ast_create_if_stmt(e, ast_create_expression_stmt(e), ast_create_expression_stmt(e)),
      ast_create_while_stmt(e, ReturnStmt(e)),
      ast_create_for_stmt(Init_("i", e), e, e, ReturnStmt(e)),
      ReturnStmt(e) }

\* int main(){ int x = 1; <statement> return x; }
RegisterPrograms ==
    { Program(<<Main(<<Init_("x", One), s, ReturnStmt(Use("x"))>>)>>) :
        s \in UNION { RegisterStatements(e) : e \in RegisterExpressions } }

CodegenPrograms ==
    [expression |-> ExpressionPrograms, control |-> ControlPrograms,
     calling |-> CallingPrograms, string |-> StringPrograms, body |-> BodyPrograms,
     register |-> RegisterPrograms]

InitCodegen ==
    /\ source = <<>> /\ lexer = Idle /\ returned = Idle /\ last_call = "idle" /\ calls = 0
    /\ parser = Idle /\ stack = <<>> /\ control = Idle
    /\ analyzer = Idle /\ sem_stack = <<>> /\ sem_control = Idle
    /\ \E class \in DOMAIN CodegenPrograms :
           /\ ast \in CodegenPrograms[class]
           /\ driver = [op |-> "codegen", class |-> class, stage |-> "codegen_program", i |-> 0, s |-> 0]
    /\ codegen = codegen_create
    /\ cpu = Idle

\* the code generator is at the stage of codegen_generate
Generating(stage) == driver.op \in {"codegen", "main"} /\ driver.stage = stage

\* codegen_program up to its last loop
ProgramHeader ==
    /\ Generating("codegen_program")
    /\ codegen' = program_header(codegen)
    /\ driver' = [driver EXCEPT !.stage = "codegen_function_decl", !.i = 1]
    /\ UNCHANGED <<lexVars, parVars, semVars, cpu>>

\* one turn of the last loop of codegen_program: a declaration that is no
\* function with a body is passed over, and codegen_function_decl starts
\* the text of a function with a body
FunctionDeclLoop ==
    /\ Generating("codegen_function_decl")
    /\ driver.i <= Len(ast.declarations)
    /\ LET decl == ast.declarations[driver.i]
       IN  IF decl.type = "AST_FUNCTION_DECL" /\ decl.body # NULLNODE
           THEN /\ codegen' = function_decl_begin(codegen, decl)
                /\ driver' = [driver EXCEPT !.stage = "codegen_compound_stmt", !.s = 1]
           ELSE /\ codegen' = codegen
                /\ driver' = [driver EXCEPT !.i = @ + 1]
    /\ UNCHANGED <<lexVars, parVars, semVars, cpu>>

\* one turn of the loop of codegen_compound_stmt for the body of a function
BodyStatementLoop ==
    /\ Generating("codegen_compound_stmt")
    /\ driver.s <= Len(ast.declarations[driver.i].body.statements)
    /\ codegen' = codegen_statement(codegen,
                                    ast.declarations[driver.i].body.statements[driver.s])
    /\ driver' = [driver EXCEPT !.s = @ + 1]
    /\ UNCHANGED <<lexVars, parVars, semVars, cpu>>

\* the body is generated: codegen_function_decl ends the text of the function
FunctionDeclEnd ==
    /\ Generating("codegen_compound_stmt")
    /\ driver.s > Len(ast.declarations[driver.i].body.statements)
    /\ codegen' = function_decl_end(codegen, ast.declarations[driver.i])
    /\ driver' = [driver EXCEPT !.stage = "codegen_function_decl", !.i = @ + 1]
    /\ UNCHANGED <<lexVars, parVars, semVars, cpu>>

\* the end of codegen_program: codegen_generate returns 1
ProgramGenerated ==
    /\ Generating("codegen_function_decl")
    /\ driver.i > Len(ast.declarations)
    /\ driver' = [driver EXCEPT !.stage = "generated"]
    /\ UNCHANGED <<lexVars, parVars, semVars, codegen, cpu>>

NextGenerate ==
    \/ ProgramHeader \/ FunctionDeclLoop \/ BodyStatementLoop \/ FunctionDeclEnd
    \/ ProgramGenerated

(* The text of the output *)

Generated == driver.op \in {"codegen", "main"} /\ driver.stage = "generated"

Output == codegen.output

\* line i of the output defines a label, and which
IsLabel(i) == Output[i].format = "%s:\n"

LabelAt(i) == Output[i].args[1]

\* the lines where the text of a function starts: the label of its name
FunctionLabels == { i \in 1..Len(Output) : IsLabel(i) /\ LabelAt(i)[1] # "." }

\* the line that ends the text of the function that starts at line i: the
\* empty line after its ret
FunctionEnd(i) ==
    CHOOSE j \in (i + 1)..Len(Output) :
        /\ Output[j].format = "\n"
        /\ \A k \in (i + 1)..(j - 1) : Output[k].format # "\n"

FunctionText(i) == i..FunctionEnd(i)

\* the lines of the set that define the label
Definitions(lines, label) == { i \in lines : IsLabel(i) /\ LabelAt(i) = label }

\* the labels that the jumps in the lines go to, as the sequence of them
IsJump(i) == Output[i].format \in {Line("jz %s"), Line("jmp %s"), Line("jmp .Lreturn")}

Target(i) == IF Output[i].format = Line("jmp .Lreturn") THEN LabelReturn ELSE Output[i].args[1]

\* C16: every emitted function has exactly one '.Lreturn' label and ends
\* with 'ret', and every label that a jz or jmp of the function goes to is
\* defined exactly once within the text of that function.
C16_FunctionWellFormed ==
    Generated =>
        \A f \in FunctionLabels :
            /\ Cardinality(Definitions(FunctionText(f), LabelReturn)) = 1
            /\ Output[FunctionEnd(f) - 1].format = Line("ret")
            /\ \A i \in FunctionText(f) :
                   IsJump(i) => Cardinality(Definitions(FunctionText(f), Target(i))) = 1

\* two functions are emitted, the first with a jz to an else label, jumps
\* of a loop and a jump to .Lreturn
C16_Witness ==
    /\ Generated
    /\ Cardinality(FunctionLabels) = 2
    /\ \E f \in FunctionLabels :
           /\ \E i \in FunctionText(f) : Output[i].format = Line("jmp .Lreturn")
           /\ \E i \in FunctionText(f) :
                  /\ Output[i].format = Line("jz %s")
                  /\ SubSeq(Output[i].args[1], 1, 6) = <<".", "L", "e", "l", "s", "e">>
           /\ \E i, j \in FunctionText(f) :
                  /\ i < j
                  /\ IsLabel(i)
                  /\ Output[j].format = Line("jmp %s")
                  /\ Output[j].args[1] = LabelAt(i)

(* The activation record *)

RECURSIVE VariableDecls(_)
\* the variable declarations anywhere in a statement, in the order of the
\* text
VariableDecls(node) ==
    CASE node = NULLNODE -> <<>>
      [] node.type = "AST_VARIABLE_DECL" -> <<node>>
      [] node.type = "AST_COMPOUND_STMT" ->
            LET RECURSIVE all(_)
                all(i) == IF i > Len(node.statements) THEN <<>>
                          ELSE VariableDecls(node.statements[i]) \o all(i + 1)
            IN  all(1)
      [] node.type = "AST_IF_STMT" ->
            VariableDecls(node.then_stmt) \o VariableDecls(node.else_stmt)
      [] node.type = "AST_WHILE_STMT" -> VariableDecls(node.body)
      [] node.type = "AST_FOR_STMT" -> VariableDecls(node.init) \o VariableDecls(node.body)
      [] OTHER -> <<>>

RECURSIVE PaddedSizes(_, _)
\* the sum of the sizes of the types, each padded to 8 bytes
PaddedSizes(types, n) ==
    IF n = 0 THEN 0
    ELSE PaddedSizes(types, n - 1) + ((codegen_type_size(types[n]) + 7) \div 8) * 8

\* the final stack size of a function: its parameters and all its local
\* variables
FinalStackSize(decl) ==
    LET locals == VariableDecls(decl.body)
        types == [i \in 1..Len(decl.parameters) |-> decl.parameters[i].param_type]
                 \o [i \in 1..Len(locals) |-> locals[i].var_type]
    IN  PaddedSizes(types, Len(types))

\* the function declaration whose text starts at line f of the output
DeclOf(f) ==
    ast.declarations[CHOOSE d \in 1..Len(ast.declarations) :
                         /\ ast.declarations[d].type = "AST_FUNCTION_DECL"
                         /\ ast.declarations[d].body # NULLNODE
                         /\ ast.declarations[d].name = LabelAt(f)]

\* the subq of the prologue of the function at line f, if there is one
Reserves(f) == f + 3 <= Len(Output) /\ Output[f + 3].format = Line("subq $%d, %%rsp")

\* C17: in every emitted function the prologue has 'subq $S, %rsp'
\* whenever the final stack_size of the function, over all its parameters
\* and local variables, is greater than 0, with S that stack_size rounded up
\* to a multiple of 16.
C17_PrologueReservesAll ==
    Generated =>
        \A f \in FunctionLabels :
            FinalStackSize(DeclOf(f)) > 0 =>
                /\ Reserves(f)
                /\ Output[f + 3].args[1] = ((FinalStackSize(DeclOf(f)) + 15) \div 16) * 16

(* The string literals *)

\* the lines of the data section: from '.section .data' to '.section .text'
DataSection ==
    { i \in 1..Len(Output) :
        /\ \E d \in 1..(i - 1) : Output[d].format = ".section .data\n"
        /\ \E t \in (i + 1)..Len(Output) : Output[t].format = ".section .text\n"
        /\ \A t \in 1..i : Output[t].format # ".section .text\n" }

\* C14: each string literal that the code refers to by 'movq $.LCk, %R' has
\* its label .LCk defined exactly once, followed by its '.string' value, in
\* the '.section .data' part of the output, before '.section .text'.
C14_StringsDefined ==
    Generated =>
        \A i \in 1..Len(Output) :
            Output[i].format = Line("movq $%s, %%%s") =>
                /\ Cardinality(Definitions(1..Len(Output), Output[i].args[1])) = 1
                /\ \E d \in DataSection :
                       /\ IsLabel(d) /\ LabelAt(d) = Output[i].args[1]
                       /\ d + 1 \in DataSection
                       /\ Output[d + 1].format = "    .string \"%s\"\n"
                       /\ \E l \in 1..Len(codegen.string_literals) :
                              /\ codegen.string_literals[l].label = LabelAt(d)
                              /\ codegen.string_literals[l].value = Output[d + 1].args[1]

-----------------------------------------------------------------------------
(* The emitted program at work: the output is assembled and linked, as the *)
(* driver has gcc do it, and the instructions are executed from main.      *)
(* A 64-bit value is the sequence of its 8 bytes, the lowest first.        *)

\* the most instructions executed
MaxSteps == 120

\* the values that a byte of memory never written may hold
Garbage == {0, 255}

\* a number of 32 bits with sign, extended to 64 bits
Imm(n) ==
    [i \in 1..8 |->
        IF i <= 4 THEN (n \div (256 ^ (i - 1))) % 256 ELSE IF n < 0 THEN 255 ELSE 0]

\* the low 32 bits of a value as a number with sign
ToInt32(w) ==
    w[1] + 256 * w[2] + 65536 * w[3]
    + 16777216 * (IF w[4] >= 128 THEN w[4] - 256 ELSE w[4])

RECURSIVE AddFrom(_, _, _, _)
\* the bytes i..8 of a + b with the carry into byte i
AddFrom(a, b, i, carry) ==
    IF i > 8 THEN <<>>
    ELSE <<(a[i] + b[i] + carry) % 256>>
         \o AddFrom(a, b, i + 1, (a[i] + b[i] + carry) \div 256)

Add(a, b) == AddFrom(a, b, 1, 0)

Neg(a) == Add([i \in 1..8 |-> 255 - a[i]], Imm(1))

Sub(a, b) == Add(a, Neg(b))

RECURSIVE Column(_, _, _, _)
\* the sum of the products a[i] * b[k + 1 - i] for i in j..k
Column(a, b, k, j) ==
    IF j > k THEN 0 ELSE a[j] * b[k + 1 - j] + Column(a, b, k, j + 1)

RECURSIVE MulFrom(_, _, _, _)
\* the bytes k..8 of the low 64 bits of a * b with the carry into byte k
MulFrom(a, b, k, carry) ==
    IF k > 8 THEN <<>>
    ELSE <<(Column(a, b, k, 1) + carry) % 256>>
         \o MulFrom(a, b, k + 1, (Column(a, b, k, 1) + carry) \div 256)

Mul(a, b) == MulFrom(a, b, 1, 0)

IsZero(a) == \A i \in 1..8 : a[i] = 0

Sign(a) == a[8] >= 128

\* a < b as numbers of 64 bits with sign
SignedLess(a, b) ==
    IF Sign(a) # Sign(b)
    THEN Sign(a)
    ELSE \E i \in 1..8 :
             /\ a[i] < b[i]
             /\ \A j \in (i + 1)..8 : a[j] = b[j]

\* the number of an address
Addr(w) == w[1] + 256 * w[2]

\* the register that has the name as the name of one of its parts
RegisterOf(name) ==
    CHOOSE r \in 0..(MAX_REGISTERS - 1) :
        \E k \in 1..3 : register_names[r + 1][k] = name

\* the bytes moved by an instruction with the suffix
SuffixSize(suffix) == CASE suffix = "b" -> 1 [] suffix = "l" -> 4 [] OTHER -> 8

\* the value read from size bytes of memory at the address; g is what a
\* byte never written holds
Load(mem, address, size, g) ==
    [i \in 1..size |->
        IF (address + i - 1) \in DOMAIN mem THEN mem[address + i - 1] ELSE g]

\* memory after the low size bytes of the value are written at the address
Store(mem, address, size, w) ==
    [a \in DOMAIN mem \cup (address..(address + size - 1)) |->
        IF a \in address..(address + size - 1) THEN w[a - address + 1] ELSE mem[a]]

\* a register after size bytes are moved into it: 4 bytes clear the upper
\* half, 1 byte leaves the rest as it was
Moved(old, bytes, size) ==
    [i \in 1..8 |->
        IF i <= size THEN bytes[i] ELSE IF size = 4 THEN 0 ELSE old[i]]

\* the line of the output that defines the label
LabelLine(label) == CHOOSE i \in 1..Len(Output) : IsLabel(i) /\ LabelAt(i) = label

\* the functions of the runtime that the program is linked with
Runtime ==
    { <<"p","r","i","n","t">>, <<"p","r","i","n","t","_","i","n","t">>,
      <<"p","r","i","n","t","_","c","h","a","r">>, <<"r","e","a","d","_","i","n","t">> }

\* the names of the register operands of the instruction of a line
RegisterOperands(line) ==
    CASE line.format \in {Line("movq $%d, %%%s"), Line("movq $%s, %%%s"),
                          Line("mov%s %%%s, %d(%%rbp)")} -> {line.args[2]}
      [] line.format = Line("mov%s %d(%%rbp), %%%s") -> {line.args[3]}
      [] line.format \in {Line("movq %%%s, %%rax"), Line("movq %%rax, %%%s"),
                          Line("negq %%%s"), Line("setl %%%s"), Line("sete %%%s")} ->
            {line.args[1]}
      [] line.format \in {Line("addq %%%s, %%%s"), Line("subq %%%s, %%%s"),
                          Line("imulq %%%s, %%%s"), Line("cmpq %%%s, %%%s"),
                          Line("testq %%%s, %%%s"), Line("movzbl %%%s, %%%s")} ->
            {line.args[1], line.args[2]}
      [] OTHER -> {}

\* the assembler rejects a label that is defined twice and a register
\* operand that names no register, and the linker a name that is used and
\* not defined
Rejected ==
    \/ \E i \in 1..Len(Output) : "INVALID" \in RegisterOperands(Output[i])
    \/ \E i, j \in 1..Len(Output) :
           i < j /\ IsLabel(i) /\ IsLabel(j) /\ LabelAt(i) = LabelAt(j)
    \/ \E i \in 1..Len(Output) :
           \/ IsJump(i) /\ Definitions(1..Len(Output), Target(i)) = {}
           \/ /\ Output[i].format = Line("movq $%s, %%%s")
              /\ Definitions(1..Len(Output), Output[i].args[1]) = {}
           \/ /\ Output[i].format = Line("call %s")
              /\ Output[i].args[1] \notin Runtime
              /\ Definitions(1..Len(Output), Output[i].args[1]) = {}
    \/ Definitions(1..Len(Output), <<"m", "a", "i", "n">>) = {}

\* the machine when main is called: the return address 0 stands for the
\* caller of main
Started ==
    LET top == 4096
    IN  [op |-> "running", pc |-> LabelLine(<<"m", "a", "i", "n">>), steps |-> 0,
         reg |-> [r \in 0..(MAX_REGISTERS - 1) |-> Imm(0)],
         rsp |-> Imm(top - 8), rbp |-> Imm(0), zf |-> 0, lt |-> 0,
         mem |-> Store(<<>>, top - 8, 8, Imm(0))]

\* the machine after the instruction of the line; a line that is no
\* instruction is passed over.  The flags are those of cmpq and testq, the
\* only ones the emitted code reads.  The functions of the runtime and the
\* addresses of data are not part of the machine.
Step(m, line, g) ==
    LET f == line.format
        a == line.args
        next == [m EXCEPT !.pc = @ + 1, !.steps = @ + 1]
        r1 == RegisterOf(a[1])
        r2 == RegisterOf(a[2])
        set(flag) == [next EXCEPT !.reg[r1] = Moved(@, <<flag>>, 1)]
        jump(label) == [next EXCEPT !.pc = LabelLine(label)]
    IN  CASE f = Line("pushq %%rbp") ->
                [next EXCEPT !.rsp = Sub(m.rsp, Imm(8)),
                             !.mem = Store(@, Addr(Sub(m.rsp, Imm(8))), 8, m.rbp)]
          [] f = Line("popq %%rbp") ->
                [next EXCEPT !.rbp = Load(m.mem, Addr(m.rsp), 8, g),
                             !.rsp = Add(m.rsp, Imm(8))]
          [] f = Line("movq %%rsp, %%rbp") -> [next EXCEPT !.rbp = m.rsp]
          [] f = Line("movq %%rbp, %%rsp") -> [next EXCEPT !.rsp = m.rbp]
          [] f = Line("subq $%d, %%rsp") -> [next EXCEPT !.rsp = Sub(@, Imm(a[1]))]
          [] f = Line("call %s") /\ a[1] \in Runtime -> [next EXCEPT !.op = "unsupported"]
          [] f = Line("call %s") /\ a[1] \notin Runtime ->
                [next EXCEPT !.rsp = Sub(m.rsp, Imm(8)),
                             !.mem = Store(@, Addr(Sub(m.rsp, Imm(8))), 8, Imm(m.pc + 1)),
                             !.pc = LabelLine(a[1])]
          [] f = Line("ret") ->
                LET address == Load(m.mem, Addr(m.rsp), 8, g)
                IN  IF address = Imm(0)
                    THEN [next EXCEPT !.op = "exited", !.rsp = Add(m.rsp, Imm(8))]
                    ELSE [next EXCEPT !.pc = Addr(address), !.rsp = Add(m.rsp, Imm(8))]
          [] f = Line("movq $0, %%rax") -> [next EXCEPT !.reg[REG_RAX] = Imm(0)]
          [] f = Line("movq $%d, %%%s") -> [next EXCEPT !.reg[r2] = Imm(a[1])]
          [] f = Line("movq %%%s, %%rax") -> [next EXCEPT !.reg[REG_RAX] = m.reg[r1]]
          [] f = Line("movq %%rax, %%%s") -> [next EXCEPT !.reg[r1] = m.reg[REG_RAX]]
          [] f = Line("mov%s %d(%%rbp), %%%s") ->
                LET r == RegisterOf(a[3])
                    size == SuffixSize(a[1])
                    address == Addr(Add(m.rbp, Imm(a[2])))
                IN  [next EXCEPT !.reg[r] = Moved(@, Load(m.mem, address, size, g), size)]
          [] f = Line("mov%s %%%s, %d(%%rbp)") ->
                [next EXCEPT !.mem = Store(@, Addr(Add(m.rbp, Imm(a[3]))),
                                           SuffixSize(a[1]), m.reg[r2])]
          [] f = Line("addq %%%s, %%%s") ->
                [next EXCEPT !.reg[r2] = Add(m.reg[r2], m.reg[r1])]
          [] f = Line("subq %%%s, %%%s") ->
                [next EXCEPT !.reg[r2] = Sub(m.reg[r2], m.reg[r1])]
          [] f = Line("imulq %%%s, %%%s") ->
                [next EXCEPT !.reg[r2] = Mul(m.reg[r2], m.reg[r1])]
          [] f = Line("negq %%%s") -> [next EXCEPT !.reg[r1] = Neg(m.reg[r1])]
          [] f = Line("cmpq %%%s, %%%s") ->
                [next EXCEPT !.zf = IF m.reg[r2] = m.reg[r1] THEN 1 ELSE 0,
                             !.lt = IF SignedLess(m.reg[r2], m.reg[r1]) THEN 1 ELSE 0]
          [] f = Line("testq %%%s, %%%s") ->
                [next EXCEPT !.zf = IF IsZero(m.reg[r1]) THEN 1 ELSE 0,
                             !.lt = IF Sign(m.reg[r1]) THEN 1 ELSE 0]
          [] f = Line("setl %%%s") -> set(m.lt)
          [] f = Line("sete %%%s") -> set(m.zf)
          [] f = Line("movzbl %%%s, %%%s") ->
                [next EXCEPT !.reg[r2] = Moved(@, <<m.reg[r1][1], 0, 0, 0>>, 4)]
          [] f = Line("jz %s") -> IF m.zf = 1 THEN jump(a[1]) ELSE next
          [] f = Line("jmp %s") -> jump(a[1])
          [] f = Line("jmp .Lreturn") -> jump(LabelReturn)
          [] f = Line("movq $%s, %%%s") -> [next EXCEPT !.op = "unsupported"]
          [] OTHER -> next

\* the output is assembled and linked; if that succeeds main is called
AssembleAndLink ==
    /\ driver.op = "codegen"
    /\ Generated
    /\ cpu = Idle
    /\ cpu' = IF Rejected THEN [op |-> "rejected"] ELSE Started
    /\ UNCHANGED <<lexVars, parVars, semVars, codegen, driver>>

\* the instruction at pc is executed
Execute ==
    /\ driver.op = "codegen"
    /\ cpu.op = "running"
    /\ cpu.steps < MaxSteps
    /\ \E g \in Garbage : cpu' = Step(cpu, Output[cpu.pc], g)
    /\ UNCHANGED <<lexVars, parVars, semVars, codegen, driver>>

NextCodegen == NextGenerate \/ AssembleAndLink \/ Execute

SpecCodegen == InitCodegen /\ [][NextCodegen]_vars

(* The value that main returns in C *)

RECURSIVE c_eval(_, _)
\* the value of the expression and the variables after it, with int
\* arithmetic on values far inside the range of 32 bits
c_eval(env, e) ==
    CASE e.type = "AST_NUMBER" -> [env |-> env, value |-> e.value]
      [] e.type = "AST_IDENTIFIER" -> [env |-> env, value |-> env[e.name]]
      [] e.type = "AST_UNARY_OP" ->
            LET v == c_eval(env, e.operand)
            IN  [env |-> v.env, value |-> -v.value]
      [] e.type = "AST_BINARY_OP" /\ e.oper = "=" ->
            LET v == c_eval(env, e.right)
            IN  [env |-> (e.left.name :> v.value) @@ v.env, value |-> v.value]
      [] e.type = "AST_BINARY_OP" /\ e.oper # "=" ->
            LET l == c_eval(env, e.left)
                r == c_eval(l.env, e.right)
            IN  [env |-> r.env,
                 value |-> CASE e.oper = "+" -> l.value + r.value
                             [] e.oper = "-" -> l.value - r.value
                             [] e.oper = "*" -> l.value * r.value
                             [] e.oper = "<" -> IF l.value < r.value THEN 1 ELSE 0
                             [] e.oper = "==" -> IF l.value = r.value THEN 1 ELSE 0]

RECURSIVE c_exec(_, _, _)
\* the variables after the statements from statement i on, and the value
\* returned if one of them returns
c_exec(env, statements, i) ==
    IF i > Len(statements)
    THEN [env |-> env, returned |-> FALSE, value |-> 0]
    ELSE LET s == statements[i]
             rest(e) == c_exec(e, statements, i + 1)
             branch(b) == LET done == c_exec(env, <<b>>, 1)
                          IN  IF done.returned THEN done ELSE rest(done.env)
         IN  CASE s.type = "AST_RETURN_STMT" ->
                     [env |-> env, returned |-> TRUE, value |-> c_eval(env, s.value).value]
               [] s.type = "AST_VARIABLE_DECL" ->
                     rest((s.name :> c_eval(env, s.initializer).value) @@ env)
               [] s.type = "AST_EXPRESSION_STMT" -> rest(c_eval(env, s.expression).env)
               [] s.type = "AST_COMPOUND_STMT" ->
                     LET done == c_exec(env, s.statements, 1)
                     IN  IF done.returned THEN done ELSE rest(done.env)
               [] s.type = "AST_IF_STMT" ->
                     LET cond == c_eval(env, s.condition)
                     IN  IF cond.value # 0
                         THEN LET done == c_exec(cond.env, <<s.then_stmt>>, 1)
                              IN  IF done.returned THEN done ELSE rest(done.env)
                         ELSE IF s.else_stmt # NULLNODE
                         THEN LET done == c_exec(cond.env, <<s.else_stmt>>, 1)
                              IN  IF done.returned THEN done ELSE rest(done.env)
                         ELSE rest(cond.env)
               [] s.type = "AST_WHILE_STMT" ->
                     LET cond == c_eval(env, s.condition)
                     IN  IF cond.value # 0
                         THEN LET done == c_exec(cond.env, <<s.body>>, 1)
                              IN  IF done.returned THEN done
                                  ELSE c_exec(done.env, statements, i)
                         ELSE rest(cond.env)

\* what main of the program returns
c_main == c_exec(<<>>, ast.declarations[Len(ast.declarations)].body.statements, 1).value

Exited == driver.op = "codegen" /\ cpu.op = "exited"

\* C12: for a program whose only function is a parameterless int main with
\* int locals, literals, assignment, + - * < ==, unary -, if/else, while and
\* return, the emitted instructions leave in %rax a value whose low 32 bits
\* are the returned expression evaluated as C does with int, also when the
\* variables compared hold negative values.
C12_ReturnsCValue ==
    (Exited /\ driver.class \in {"expression", "control"}) =>
        ToInt32(cpu.reg[REG_RAX]) = c_main

\* C13: a function with int parameters that is called with arguments works
\* end to end: the program of add(15, 27) is assembled, runs, and exits with
\* 42.
C13_ParametersPassed ==
    (driver.op = "codegen" /\ driver.class = "calling" /\ cpu # Idle) =>
        /\ cpu.op # "rejected"
        /\ cpu.op = "exited" => ToInt32(cpu.reg[REG_RAX]) = 42

-----------------------------------------------------------------------------
(* The driver (src/main.c): main from the call of parser_parse_program on, *)
(* with the parser, the analyzer and the code generator it calls           *)

\* programs without errors, for the stages after the parser:
\*   int main(){int x=1;return x;}
\*   int g();int y;int main(){if(1)return 1;else return 2;}
ValidSources ==
    { <<"i", "n", "t", " ", "m", "a", "i", "n", "(", ")", "{", "i", "n", "t", " ", "x",
        "=", "1", ";", "r", "e", "t", "u", "r", "n", " ", "x", ";", "}">>,
      <<"i", "n", "t", " ", "g", "(", ")", ";", "i", "n", "t", " ", "y", ";",
        "i", "n", "t", " ", "m", "a", "i", "n", "(", ")", "{", "i", "f", "(", "1", ")",
        "r", "e", "t", "u", "r", "n", " ", "1", ";", "e", "l", "s", "e", " ",
        "r", "e", "t", "u", "r", "n", " ", "2", ";", "}">> }

\* programs without errors in which a name is declared again: in an inner
\* block, in the body of the function whose parameter has the name, and in a
\* for statement
\*   int main(){int x=1;{int x=2;}return x;}
\*   int f(int x){int x=2;return x;}
\*   int main(){int x=1;for(int x=2;x<3;x=x+1)x;return x;}
ShadowSources ==
    { <<"i", "n", "t", " ", "m", "a", "i", "n", "(", ")", "{", "i", "n", "t", " ", "x", "=",
        "1", ";", "{", "i", "n", "t", " ", "x", "=", "2", ";", "}", "r", "e", "t", "u", "r", "n",
        " ", "x", ";", "}">>,
      <<"i", "n", "t", " ", "f", "(", "i", "n", "t", " ", "x", ")", "{", "i", "n", "t", " ",
        "x", "=", "2", ";", "r", "e", "t", "u", "r", "n", " ", "x", ";", "}">>,
      <<"i", "n", "t", " ", "m", "a", "i", "n", "(", ")", "{", "i", "n", "t", " ", "x", "=",
        "1", ";", "f", "o", "r", "(", "i", "n", "t", " ", "x", "=", "2", ";", "x", "<", "3", ";",
        "x", "=", "x", "+", "1", ")", "x", ";", "r", "e", "t", "u", "r", "n", " ", "x", ";", "}">> }

\* a program without errors that assigns to a variable of the program level
\* and reads it in a function
\*   int y;int main(){y=1;return y;}
GlobalSources ==
    { <<"i", "n", "t", " ", "y", ";", "i", "n", "t", " ", "m", "a", "i", "n", "(", ")", "{",
        "y", "=", "1", ";", "r", "e", "t", "u", "r", "n", " ", "y", ";", "}">> }

DriverSources ==
    Programs \cup ValidSources \cup ShadowSources \cup GlobalSources
        \cup {pre \o Flatten(ws) : pre \in Prefixes, ws \in SeqsUpTo(Words, MaxWords - 1)}

InitDriver ==
    /\ source \in DriverSources
    /\ lexer = Idle /\ returned = Idle /\ last_call = "idle" /\ calls = 0
    /\ parser = parser_create(source)
    /\ stack = <<[fn |-> "parser_parse_program", stage |-> "declaration",
                  program |-> ast_create_program,
                  mark |-> -1, mark_errors |-> 0]>>
    /\ control = [op |-> "program_loop"]
    /\ ast = Idle /\ analyzer = Idle /\ sem_stack = <<>> /\ sem_control = Idle
    /\ codegen = Idle /\ cpu = Idle
    /\ driver = [op |-> "main", class |-> "source", stage |-> "parser_parse_program",
                 i |-> 0, s |-> 0, exit_code |-> -1]

InMain(stage) == driver.op = "main" /\ driver.stage = stage

\* return from main with the exit code
Exit(exit_code) == [driver EXCEPT !.stage = "exited", !.exit_code = exit_code]

\* main after parser_parse_program: it returns 1 if the parser has errors,
\* and creates the analyzer and calls semantic_analyze if not
MainParsed ==
    /\ InMain("parser_parse_program")
    /\ control.op = "done"
    /\ IF parser_has_errors(parser)
       THEN /\ driver' = Exit(1)
            /\ UNCHANGED semVars
       ELSE /\ driver' = [driver EXCEPT !.stage = "semantic_analyze"]
            /\ ast' = control.node
            /\ analyzer' = semantic_create
            /\ sem_stack' = <<[fn |-> "semantic_analyze_program", stage |-> "first_pass",
                               i |-> 1, success |-> 1]>>
            /\ sem_control' = [op |-> "program"]
    /\ UNCHANGED <<lexVars, parVars, codegen, cpu>>

\* the process is killed when the parser dereferences NULL
MainKilled ==
    /\ InMain("parser_parse_program")
    /\ control.op = "crashed"
    /\ driver' = [driver EXCEPT !.stage = "killed"]
    /\ UNCHANGED <<lexVars, parVars, semVars, codegen, cpu>>

\* main after semantic_analyze: it returns 1 if the analysis failed or the
\* analyzer has errors, and creates the code generator and calls
\* codegen_generate if not
MainAnalyzed ==
    /\ InMain("semantic_analyze")
    /\ sem_control.op = "done"
    /\ LET semantic_success == IF semantic_has_errors(analyzer) THEN 0 ELSE sem_control.value
       IN  IF semantic_success = 0
           THEN /\ driver' = Exit(1)
                /\ UNCHANGED codegen
           ELSE /\ driver' = [driver EXCEPT !.stage = "codegen_program"]
                /\ codegen' = codegen_create
    /\ UNCHANGED <<lexVars, parVars, semVars, cpu>>

\* main after codegen_generate, which returned 1: main returns 0, whatever
\* becomes of assembling and linking
MainGenerated ==
    /\ InMain("generated")
    /\ driver' = Exit(0)
    /\ UNCHANGED <<lexVars, parVars, semVars, codegen, cpu>>

NextDriver ==
    \/ NextParser \/ MainParsed \/ MainKilled
    \/ NextSem \/ MainAnalyzed
    \/ NextGenerate \/ MainGenerated

SpecDriver == InitDriver /\ [][NextDriver]_vars

\* the process has ended
Ended == driver.stage \in {"exited", "killed"}

\* C15: when the parser reports an error, semantic analysis and code
\* generation are never invoked; when semantic analysis reports an error,
\* the code generator is never created and no output is written; in both
\* cases the exit code of the driver is 1, and it is 0 only when all stages
\* succeeded.
C15_StagesGated ==
    driver.op = "main" =>
        /\ parser_has_errors(parser) => (analyzer = Idle /\ codegen = Idle)
        /\ (analyzer # Idle /\ semantic_has_errors(analyzer)) => codegen = Idle
        /\ (Ended /\ (parser_has_errors(parser)
                        \/ (analyzer # Idle /\ semantic_has_errors(analyzer)))) =>
               (driver.stage = "exited" /\ driver.exit_code = 1)
        /\ (driver.stage = "exited" /\ driver.exit_code = 0) =>
               /\ ~parser_has_errors(parser)
               /\ sem_control.op = "done" /\ sem_control.value = 1
               /\ ~semantic_has_errors(analyzer)
               /\ codegen # Idle /\ Len(codegen.output) > 0

-----------------------------------------------------------------------------
(* Further properties of the semantic analyzer                             *)

\* the global scope: the last scope of the chain, the one semantic_create pushed
GlobalScope == analyzer.scopes[Len(analyzer.scopes)]

\* C21: the global scope has level 0: the scope created by semantic_create
\* has level 0, every symbol declared at program level has scope_level 0,
\* and the level of each nested scope is the level of its parent plus one.
C21_GlobalLevelZero ==
    (Analyzing /\ analyzer.scopes # <<>>) =>
        /\ GlobalScope.level = 0
        /\ \A n \in 1..Len(GlobalScope.symbols) : GlobalScope.symbols[n].scope_level = 0
        /\ \A n \in 1..(Len(analyzer.scopes) - 1) :
               analyzer.scopes[n].level = analyzer.scopes[n + 1].level + 1

\* the statement or declaration that node holds at place k, as the analyzer
\* numbers the places: declaration k of the program, 0 for the body of a
\* function, statement k of a block, 1 and 2 for the branches of an if, 1
\* for the body of a while, 1 and 2 for the init statement and the body of a for
Child(node, k) ==
    CASE node.type = "AST_PROGRAM" -> node.declarations[k]
      [] node.type = "AST_FUNCTION_DECL" -> node.body
      [] node.type = "AST_COMPOUND_STMT" -> node.statements[k]
      [] node.type = "AST_IF_STMT" -> IF k = 1 THEN node.then_stmt ELSE node.else_stmt
      [] node.type = "AST_WHILE_STMT" -> node.body
      [] node.type = "AST_FOR_STMT" -> IF k = 1 THEN node.init ELSE node.body

RECURSIVE NodeAt(_, _)
NodeAt(node, path) ==
    IF path = <<>> THEN node ELSE NodeAt(Child(node, Head(path)), Tail(path))

\* the expressions a statement holds itself, not those of the statements inside it
OwnExpressions(node) ==
    CASE node.type = "AST_IF_STMT" -> {node.condition}
      [] node.type = "AST_WHILE_STMT" -> {node.condition}
      [] node.type = "AST_FOR_STMT" -> {node.condition, node.update}
      [] node.type = "AST_RETURN_STMT" -> {node.value}
      [] node.type = "AST_EXPRESSION_STMT" -> {node.expression}
      [] node.type = "AST_VARIABLE_DECL" -> {node.initializer}
      [] OTHER -> {}

\* an expression with the expressions inside it
RECURSIVE SubExpressions(_)
SubExpressions(node) ==
    IF node = NULLNODE
    THEN {}
    ELSE {node} \cup
         CASE node.type = "AST_BINARY_OP" ->
                  SubExpressions(node.left) \cup SubExpressions(node.right)
           [] node.type = "AST_UNARY_OP" -> SubExpressions(node.operand)
           [] node.type = "AST_FUNCTION_CALL" ->
                  UNION { SubExpressions(node.arguments[i]) : i \in 1..Len(node.arguments) }
           [] OTHER -> {}

\* the expression nodes of the statement at the place `at` of the program
ExpressionsAt(at) ==
    UNION { SubExpressions(e) : e \in OwnExpressions(NodeAt(ast, at)) }

\* the node carries the type the analyzer inferred for it, as the history
\* entry e of its statement records it
Annotated(n, e) ==
    CASE n.type = "AST_IDENTIFIER" ->
             (e.ev = "lookup" /\ e.name = n.name) => n.data_type = e.symbol.data_type
      [] n.type = "AST_FUNCTION_CALL" ->
             (e.ev = "call" /\ e.name = n.name /\ e.arguments = n.arguments) =>
                 n.data_type = e.type
      [] n.type = "AST_NUMBER" -> n.data_type = "TYPE_INT"
      [] n.type = "AST_STRING" -> n.data_type = "TYPE_CHAR_PTR"
      [] OTHER -> TRUE

\* C22: when semantic_analyze has completed without errors, every
\* identifier, call, number and string node of the tree has as its
\* data_type the type the analyzer inferred for it: the data type of the
\* symbol its name was resolved to, the return type of the function called,
\* INT for a number and char* for a string.
C22_TreeAnnotated ==
    (AnalysisDone /\ ~semantic_has_errors(analyzer)) =>
        \A k \in 1..Len(Log) :
            Log[k].ev \in {"lookup", "call"} =>
                \A n \in ExpressionsAt(Log[k].at) : Annotated(n, Log[k])

-----------------------------------------------------------------------------
(* Further properties of the parser                                        *)

\* the places where parser_synchronize stops advancing
AtSynchronizationPoint(p) ==
    \/ p.current_token.type = "TOKEN_EOF"
    \/ p.previous_token.type = "TOKEN_SEMICOLON"
    \/ p.current_token.type \in {"TOKEN_IF", "TOKEN_FOR", "TOKEN_WHILE", "TOKEN_RETURN",
                                 "TOKEN_INT", "TOKEN_CHAR", "TOKEN_VOID"}

\* the parser after k calls of parser_advance
RECURSIVE Advanced(_, _)
Advanced(p, k) == IF k = 0 THEN p ELSE Advanced(parser_advance(p), k - 1)

\* the step about to be taken calls parser_synchronize: a declaration or a
\* statement has returned to its loop while panic_mode is set
Synchronizes ==
    /\ parser.panic_mode = 1
    /\ \/ Returned("parser_parse_program", "declaration")
       \/ Returned("parser_parse_compound_statement", "statement")

\* what parser_synchronize does in a step, told by the tokens it skipped
SynchronizedStep ==
    LET skipped == parser'.consumed - parser.consumed
        cleared == [parser EXCEPT !.panic_mode = 0]
    IN  /\ parser' = Advanced(cleared, skipped)
        /\ AtSynchronizationPoint(parser')
        /\ \A k \in 0..(skipped - 1) : ~AtSynchronizationPoint(Advanced(cleared, k))

PanicModeStep ==
    /\ Len(parser'.errors) <= Len(parser.errors) + 1
    /\ parser.panic_mode = 1 => parser'.errors = parser.errors
    /\ Len(parser'.errors) > Len(parser.errors) => parser'.panic_mode = 1
    /\ IF Synchronizes
       THEN SynchronizedStep
       ELSE parser.panic_mode = 1 => parser'.panic_mode = 1

\* C23: panic-mode recovery.  While panic_mode is set no step appends an
\* error, the error that is appended sets panic_mode, and only
\* parser_synchronize clears it, so at most one error is recorded between
\* two consecutive calls of parser_synchronize; parser_synchronize clears
\* panic_mode and advances up to the first place where the previous token is
\* ';', or the current token is if, for, while, return, int, char or void,
\* or the end of the input, and no further.
C23_PanicMode == [][PanicModeStep]_vars

\* after an error parser_synchronize skipped the ')' that no statement
\* starts with and stopped in front of an if, not after a ';'
C23_Witness ==
    /\ control.op = "compound_loop"
    /\ parser.panic_mode = 0
    /\ Len(parser.errors) = 1
    /\ parser.current_token.type = "TOKEN_IF"
    /\ parser.previous_token.type = "TOKEN_RIGHT_PAREN"

-----------------------------------------------------------------------------
(* Further properties of the code generator                                *)

\* none of the registers is marked as in use
AllFree(register_used) == \A r \in 0..(MAX_REGISTERS - 1) : register_used[r] = 0

\* C24: register discipline.  Whenever the lowering of a statement begins
\* or ends (a declaration, an expression statement, an if, a while, a for,
\* a return, a block; inside another statement or not) all 8 registers are
\* free, and so they are when the program is generated: every register
\* allocated for an expression was freed by the consumer of the expression,
\* also when an operand yields no register and when the allocation fell
\* back to RAX because all 8 were in use.
C24_RegisterDiscipline ==
    driver.op = "codegen" =>
        /\ \A i \in 1..Len(codegen.boundaries) : AllFree(codegen.boundaries[i].register_used)
        /\ Generated => AllFree(codegen.register_used)

\* a program is generated in which the sum of an operand without a register
\* and an expression that needs more registers than there are is the value
\* of every part of a for statement: an addition has 'INVALID' as its left
\* operand, and another adds rax, the register of the fallback, to r9
C24_Witness ==
    /\ Generated
    /\ driver.class = "register"
    /\ \E i \in 1..Len(codegen.boundaries) : codegen.boundaries[i].type = "AST_FOR_STMT"
    /\ \E i \in 1..Len(Output) :
           /\ Output[i].format = Line("addq %%%s, %%%s")
           /\ Output[i].args = <<"rax", "r9">>
    /\ \E i \in 1..Len(Output) :
           /\ Output[i].format = Line("addq %%%s, %%%s")
           /\ Output[i].args[2] = "INVALID"

-----------------------------------------------------------------------------
(* Further properties of the scopes of the analyzer                        *)

\* the functions whose activation holds a scope it pushed
ScopeOwners ==
    {"semantic_analyze_function_decl", "semantic_analyze_compound_stmt",
     "semantic_analyze_for_stmt"}

\* the constructs under analysis that have pushed a scope
RECURSIVE OpenScopes(_)
OpenScopes(stk) ==
    IF stk = <<>>
    THEN 0
    ELSE (IF Head(stk).fn \in ScopeOwners THEN 1 ELSE 0) + OpenScopes(Tail(stk))

\* C25: scope pushes and pops are balanced: scope_level is the number of
\* scopes on the chain from current_scope to the global scope, the scopes
\* above the global one are those of the functions, compound statements and
\* for statements still under analysis, and when semantic_analyze has
\* returned, with or without errors, the chain is the global scope alone.
C25_ScopesBalanced ==
    Analyzing =>
        /\ analyzer.scope_level = Len(analyzer.scopes)
        /\ Len(analyzer.scopes) = 1 + OpenScopes(sem_stack)
        /\ GlobalScope.path = <<>>
        /\ AnalysisDone => Len(analyzer.scopes) = 1

\* the analysis of a program with a declaration in the scope of a for
\* statement of a function body has returned 0
C25_Witness ==
    /\ AnalysisDone
    /\ sem_control.value = 0
    /\ Len(analyzer.scopes) = 1
    /\ \E k \in 1..Len(Log) :
          /\ Log[k].ev = "declare"
          /\ Log[k].symbol.scope_level = 4
          /\ Log[k].symbol.data_type = "TYPE_CHAR"

-----------------------------------------------------------------------------
(* Further properties of the emitted file                                  *)

\* C26: across the whole emitted file every label is defined at most once:
\* the function labels, .Lreturn, the generated labels and the string labels
\* are pairwise distinct definitions, also when the program defines two or
\* more functions.
C26_LabelsUnique ==
    Generated =>
        \A i \in 1..Len(Output) :
            IsLabel(i) => Definitions(1..Len(Output), LabelAt(i)) = {i}

-----------------------------------------------------------------------------
(* Names in the analyzer and in the code generator                         *)

RECURSIVE StatementPaths(_, _)
RECURSIVE BlockPaths(_, _, _)

\* the places of the statements that codegen_statement lowers when it is
\* called for the statement at the place `path`, in the order it begins them
StatementPaths(node, path) ==
    IF node = NULLNODE
    THEN <<>>
    ELSE <<path>> \o
         CASE node.type = "AST_COMPOUND_STMT" -> BlockPaths(node.statements, path, 1)
           [] node.type = "AST_IF_STMT" ->
                  StatementPaths(node.then_stmt, path \o <<1>>)
                      \o StatementPaths(node.else_stmt, path \o <<2>>)
           [] node.type = "AST_WHILE_STMT" -> StatementPaths(node.body, path \o <<1>>)
           [] node.type = "AST_FOR_STMT" ->
                  StatementPaths(node.init, path \o <<1>>)
                      \o StatementPaths(node.body, path \o <<2>>)
           [] OTHER -> <<>>

\* the same for the statements of a block, from statement i on
BlockPaths(statements, path, i) ==
    IF i > Len(statements)
    THEN <<>>
    ELSE StatementPaths(statements[i], path \o <<i>>) \o BlockPaths(statements, path, i + 1)

\* the same for the bodies of the functions of the program, from declaration k on
RECURSIVE ProgramPaths(_)
ProgramPaths(k) ==
    IF k > Len(ast.declarations)
    THEN <<>>
    ELSE (IF ast.declarations[k].type = "AST_FUNCTION_DECL"
             /\ ast.declarations[k].body # NULLNODE
          THEN BlockPaths(ast.declarations[k].body.statements, <<k, 0>>, 1)
          ELSE <<>>) \o ProgramPaths(k + 1)

Began(i) == codegen.boundaries[i].ev = "before"

\* the lowering of the statement begun at boundary i has not ended after n
\* boundaries: no more statements ended than began between them
Open(i, n) ==
    /\ Began(i)
    /\ \A m \in (i + 1)..n :
           Cardinality({ j \in (i + 1)..m : ~Began(j) })
               <= Cardinality({ j \in (i + 1)..m : Began(j) })

\* the innermost statement whose lowering had begun and not ended after n
\* boundaries, as the boundary that began it; 0 if there is none
OpenStatement(n) ==
    IF \E i \in 1..n : Open(i, n)
    THEN CHOOSE i \in 1..n : Open(i, n) /\ \A j \in (i + 1)..n : ~Open(j, n)
    ELSE 0

\* the place in the program of the statement begun at boundary i
PlaceOf(i) == ProgramPaths(1)[Cardinality({ j \in 1..i : Began(j) })]

\* the symbols that the lookups of the analyzer for the name gave in the
\* statement at the place
Resolved(at, name) ==
    { Log[k].symbol : k \in { k \in 1..Len(Log) :
                                /\ Log[k].ev = "lookup"
                                /\ Log[k].at = at
                                /\ Log[k].name = name } }

\* the declarations of parameters and local variables, in the order the
\* analyzer made them, and the variables added to function contexts, in the
\* order the code generator added them
LocalDeclarations ==
    SelectSeq(Log, LAMBDA e : /\ e.ev = "declare"
                              /\ e.symbol.type \in {"SYMBOL_VARIABLE", "SYMBOL_PARAMETER"}
                              /\ e.symbol.scope_level > 1)

Added == SelectSeq(codegen.accesses, LAMBDA a : a.kind = "add")

\* the offset of the stack slot of the declaration; 0 if it has none
SlotOf(symbol) ==
    LET made == { k \in 1..Len(LocalDeclarations) :
                    /\ k <= Len(Added)
                    /\ symbol.type # "NULL"
                    /\ LocalDeclarations[k].symbol.id = symbol.id }
    IN  IF made = {} THEN 0 ELSE Added[CHOOSE k \in made : TRUE].offset

\* the load or store uses the slots of the declarations that the lookups of
\* its statement resolved the name to, and the store of an initializer the
\* slot added by its declaration
LexicalSlot(a) ==
    /\ \A symbol \in Resolved(PlaceOf(OpenStatement(a.at)), a.name) :
           SlotOf(symbol) = a.offset
    /\ \A n \in 1..Len(codegen.accesses) :
           (/\ a.kind = "store"
            /\ codegen.boundaries[OpenStatement(a.at)].type = "AST_VARIABLE_DECL"
            /\ codegen.accesses[n].kind = "add"
            /\ codegen.accesses[n].at = OpenStatement(a.at)
            /\ codegen.accesses[n].name = a.name) =>
               codegen.accesses[n].offset = a.offset

\* C27: code generation resolves names like semantic analysis does: for
\* every identifier read, assignment and initializer store in a function,
\* the stack slot of the emitted load or store is the slot of the
\* declaration that the lexical lookup of the analyzer resolves the
\* occurrence to, also when an inner block, a for statement or the function
\* body declares the name of an outer variable or of a parameter again.
C27_LexicalSlots ==
    (driver.op = "main" /\ codegen # Idle) =>
        \A n \in 1..Len(codegen.accesses) :
            codegen.accesses[n].kind # "add" => LexicalSlot(codegen.accesses[n])

-----------------------------------------------------------------------------
(* The result of the analysis                                              *)

\* C28: the value semantic_analyze returns agrees with the error list: it
\* returns 1 if and only if no semantic error was recorded during the
\* analysis, and 0 if and only if at least one was, also for errors inside
\* expression statements, for-update expressions and call arguments.
C28_ResultAgreesWithErrors ==
    AnalysisDone => (sem_control.value = 1 <=> ~semantic_has_errors(analyzer))

\* the assignments analysed: the entries of the history for the operator "="
Assignments == { k \in 1..Len(Log) : Log[k].ev = "binary_op" /\ Log[k].oper = "=" }

\* the symbols that the lookups of the name gave in the statement of entry k
Targets(k) ==
    { Log[j].symbol : j \in { j \in 1..Len(Log) :
                                /\ Log[j].ev = "lookup"
                                /\ Log[j].at = Log[k].at
                                /\ Log[j].name = Log[k].left.name } }

\* C29: every assignment that the analysis accepts without error has as its
\* left operand an IDENTIFIER that resolves to a VARIABLE or PARAMETER
\* symbol; an assignment to a literal, to a compound expression, to the
\* result of a call or to the name of a function is reported as an error.
C29_AssignmentTarget ==
    (AnalysisDone /\ ~semantic_has_errors(analyzer)) =>
        \A k \in Assignments :
            /\ Log[k].left.type = "AST_IDENTIFIER"
            /\ \A symbol \in Targets(k) :
                   symbol.type \in {"SYMBOL_VARIABLE", "SYMBOL_PARAMETER"}

-----------------------------------------------------------------------------
(* Variables of the program level                                          *)

\* the uses in function bodies of variables declared at program level: the
\* lookups of the analyzer that gave a variable of the global scope
GlobalUses ==
    { k \in 1..Len(Log) :
        /\ Log[k].ev = "lookup"
        /\ Log[k].symbol.type = "SYMBOL_VARIABLE"
        /\ Log[k].symbol.scope_level = GlobalScope.level }

\* a load or a store of the name was emitted in the statement at the place
Emitted(at, name) ==
    \E n \in 1..Len(codegen.accesses) :
        /\ codegen.accesses[n].kind \in {"load", "store"}
        /\ codegen.accesses[n].name = name
        /\ PlaceOf(OpenStatement(codegen.accesses[n].at)) = at

\* C30: variables of the program level are usable from functions: in a
\* program that the analysis accepted, every read of and every assignment to
\* such a variable in a function body has a load or a store emitted for it,
\* and no emitted instruction has the operand INVALID of a missing register.
C30_GlobalsUsable ==
    (driver.op = "main" /\ Generated) =>
        /\ \A k \in GlobalUses : Emitted(Log[k].at, Log[k].name)
        /\ \A i \in 1..Len(Output) : "INVALID" \notin RegisterOperands(Output[i])

====
